---------------------------- MODULE Spec2Model ----------------------------
(***************************************************************************)
(* Polynomial arithmetic core of mlkem-native: forward and inverse NTT     *)
(* with merged layers, base multiplication with a mulcache, reduction      *)
(* and 12-bit (de)serialization, over int16 coefficients.                  *)
(***************************************************************************)
EXTENDS Integers, Sequences, FiniteSets, TLC

VARIABLES pc, r, p, ntt_of_p, a, b, b_cache, bytes,
          mlkem_k, msg, seed, nonce, noise, trace

vars == <<pc, r, p, ntt_of_p, a, b, b_cache, bytes,
          mlkem_k, msg, seed, nonce, noise, trace>>

(* The parameter set of the build, the message buffer, and the state of    *)
(* the noise sampler                                                       *)
build_vars == <<mlkem_k, msg, seed, nonce, noise, trace>>

(***************************************************************************)
(* Parameters (params.h) and derived bounds (ntt.c)                        *)
(***************************************************************************)
MLKEM_N == 256
MLKEM_Q == 3329
MLKEM_POLYBYTES == 384
MLKEM_K == 3
MLKEM_SYMBYTES == 32
MLKEM_ETA2 == 2
UINT12_MAX == 4095
INT16_MIN == -32768
INT16_MAX == 32767

NTT_BOUND1 == MLKEM_Q - 1
NTT_BOUND2 == 2 * MLKEM_Q - 1
NTT_BOUND4 == 4 * MLKEM_Q - 1
NTT_BOUND6 == 6 * MLKEM_Q - 1
NTT_BOUND7 == 7 * MLKEM_Q - 1
NTT_BOUND8 == 8 * MLKEM_Q - 1
INVNTT_BOUND_REF == NTT_BOUND8
MONT_F == 1441

Coeffs == 0 .. (MLKEM_N - 1)

Abs(x) == IF x < 0 THEN -x ELSE x

(* array_abs_bound(a, 0, MLKEM_N - 1, B): every coefficient in [-B, B],   *)
(* stated as: no coefficient lies outside                                  *)
array_abs_bound(x, B) == {i \in DOMAIN x : Abs(x[i]) > B} = {}

(* array_bound(a, 0, MLKEM_N - 1, lo, hi): every coefficient in [lo, hi] *)
array_bound(x, lo, hi) == {i \in DOMAIN x : x[i] < lo \/ x[i] > hi} = {}

(***************************************************************************)
(* Machine integers: conversion of an int value to a fixed-width type      *)
(***************************************************************************)
ToInt16(x) == ((x + 32768) % 65536) - 32768
ToUint16(x) == x % 65536
ToUint8(x) == x % 256

(* Product of two uint16 values, truncated to uint16 *)
MulUint16(x, y) ==
  LET lo == x % 256
      hi == x \div 256
  IN  (lo * y + ((hi * y) % 256) * 256) % 65536

RECURSIVE BitOr(_, _)
BitOr(x, y) ==
  IF x = 0 THEN y
  ELSE IF y = 0 THEN x
  ELSE (IF ((x % 2) = 1) \/ ((y % 2) = 1) THEN 1 ELSE 0)
       + 2 * BitOr(x \div 2, y \div 2)

RECURSIVE BitAnd(_, _)
BitAnd(x, y) ==
  IF x = 0 \/ y = 0 THEN 0
  ELSE (IF ((x % 2) = 1) /\ ((y % 2) = 1) THEN 1 ELSE 0)
       + 2 * BitAnd(x \div 2, y \div 2)

(* Faulty variant of montgomery_reduce: the low half times q^-1 is used as *)
(* an unsigned 16-bit value                                                *)
montgomery_reduce_unsigned_t(x) ==
  LET a_reduced  == x % 65536
      a_inverted == MulUint16(a_reduced, 62209)
      d          == x - a_inverted * MLKEM_Q
  IN  ToInt16(d \div 65536)

(***************************************************************************)
(* Modular reduction (reduce.h)                                            *)
(***************************************************************************)
(* Montgomery reduction of a 32-bit value: a * 2^-16 mod q.               *)
(* 62209 is q^-1 mod 2^16. For every argument the callers below produce    *)
(* (|x| <= 2^30) the difference x - t * q stays within int32.              *)
montgomery_reduce(x) ==
  LET a_reduced  == x % 65536
      a_inverted == MulUint16(a_reduced, 62209)
      t          == ToInt16(a_inverted)
      d          == x - t * MLKEM_Q
  IN  ToInt16(d \div 65536)

(* Montgomery multiplication of two int16 values *)
fqmul(x, y) == montgomery_reduce(x * y)

(* Signed Barrett reduction of an int16 value *)
barrett_reduce(x) ==
  LET t == (20159 * x + 33554432) \div 67108864
  IN  ToInt16(x - t * MLKEM_Q)

(* Conditional addition of q: (-q, q) -> [0, q) *)
scalar_signed_to_unsigned_q(c) ==
  ToUint16(IF c < 0 THEN c + MLKEM_Q ELSE c)

(***************************************************************************)
(* Zeta tables (zetas.i); tuples are 1-based, the C arrays 0-based         *)
(***************************************************************************)
mlkem_l1zeta1 == -758
mlkem_l2zeta2 == -359
mlkem_l2zeta3 == -1517
mlkem_l3zeta4 == 1493
mlkem_l3zeta5 == 1422
mlkem_l3zeta6 == 287
mlkem_l3zeta7 == 202

mlkem_layer4_zetas ==
  << -171, 622, 1577, 182, 962, -1202, -1474, 1468 >>

mlkem_layer5_even_zetas ==
  << 573, 264, -829, -1602, -681, 732, -1542, -205 >>

mlkem_layer5_odd_zetas ==
  << -1325, 383, 1458, -130, 1017, 608, 411, -1571 >>

mlkem_layer6_zetas ==
  << 1223, 652,   -552,  1015, -1293, 1491, -282, -1544, 516, -8,    -320,
     -666, -1618, -1162, 126,  1469,  -853, -90,  -271,  830, 107,   -1421,
     -247, -951,  -398,  961,  -1508, -725, 448,  -1065, 677, -1275 >>

mlkem_layer7_zetas ==
  << -1103, 430,  555,   843,   -1251, 871,   1550,  105,   422,   587,  177,
     -235,  -291, -460,  1574,  1653,  -246,  778,   1159,  -147,  -777, 1483,
     -602,  1119, -1590, 644,   -872,  349,   418,   329,   -156,  -75,  817,
     1097,  603,  610,   1322,  -1285, -1465, 384,   -1215, -136,  1218, -1335,
     -874,  220,  -1187, -1659, -1185, -1530, -1278, 794,   -1510, -854, -870,
     478,   -108, -308,  996,   991,   958,   -1460, 1522,  1628 >>

(***************************************************************************)
(* Forward NTT (ntt.c, section 1.1)                                        *)
(***************************************************************************)
(* Faulty variant of ct_butterfly: the product with the twiddle is         *)
(* truncated to int16 instead of being Montgomery-reduced                  *)
ct_butterfly_unreduced(x, ca, cb, zeta) ==
  LET t1 == ToInt16(x[cb] * zeta)
      t2 == x[ca]
  IN  [x EXCEPT ![cb] = ToInt16(t2 - t1), ![ca] = ToInt16(t2 + t1)]

(* One Cooley-Tukey butterfly, reduction of the sums deferred:             *)
(*   t1 = fqmul(r[cb], zeta); t2 = r[ca]; r[cb] = t2 - t1; r[ca] = t2 + t1 *)
ct_butterfly(x, ca, cb, zeta) ==
  LET t1 == fqmul(x[cb], zeta)
      t2 == x[ca]
  IN  [x EXCEPT ![cb] = ToInt16(t2 - t1), ![ca] = ToInt16(t2 + t1)]

(* Body of the loop of ntt_layer123 for one j *)
ntt_layer123_body(x, j) ==
  LET ci1 == j + 0
      ci2 == j + 32
      ci3 == j + 64
      ci4 == j + 96
      ci5 == j + 128
      ci6 == j + 160
      ci7 == j + 192
      ci8 == j + 224
      (* Layer 1 *)
      s1  == ct_butterfly(x,   ci1, ci5, mlkem_l1zeta1)
      s2  == ct_butterfly(s1,  ci3, ci7, mlkem_l1zeta1)
      s3  == ct_butterfly(s2,  ci2, ci6, mlkem_l1zeta1)
      s4  == ct_butterfly(s3,  ci4, ci8, mlkem_l1zeta1)
      (* Layer 2 *)
      s5  == ct_butterfly(s4,  ci1, ci3, mlkem_l2zeta2)
      s6  == ct_butterfly(s5,  ci5, ci7, mlkem_l2zeta3)
      s7  == ct_butterfly(s6,  ci2, ci4, mlkem_l2zeta2)
      s8  == ct_butterfly(s7,  ci6, ci8, mlkem_l2zeta3)
      (* Layer 3 *)
      s9  == ct_butterfly(s8,  ci1, ci2, mlkem_l3zeta4)
      s10 == ct_butterfly(s9,  ci3, ci4, mlkem_l3zeta5)
      s11 == ct_butterfly(s10, ci5, ci6, mlkem_l3zeta6)
      s12 == ct_butterfly(s11, ci7, ci8, mlkem_l3zeta7)
  IN  s12

(* for (j = 0; j < 32; j++): iteration j reads and writes only the         *)
(* coefficients j, j + 32, ..., j + 224, so coefficient i of the result is *)
(* the one written by iteration i % 32                                     *)
ntt_layer123(x) ==
  [i \in Coeffs |-> ntt_layer123_body(x, i % 32)[i]]

(* Body of the loop of ntt_layer45_butterfly for one j *)
ntt_layer45_body(x, z1, z2, z3, start, j) ==
  LET ci1 == j + start
      ci2 == ci1 + 8
      ci3 == ci1 + 16
      ci4 == ci1 + 24
      (* Layer 4 *)
      s1 == ct_butterfly(x,  ci1, ci3, z1)
      s2 == ct_butterfly(s1, ci2, ci4, z1)
      (* Layer 5 *)
      s3 == ct_butterfly(s2, ci1, ci2, z2)
      s4 == ct_butterfly(s3, ci3, ci4, z3)
  IN  s4

(* for (j = 0; j < 8; j++): iteration j reads and writes only the          *)
(* coefficients start + j + {0, 8, 16, 24}; coefficients outside           *)
(* start .. start + 31 are left alone                                      *)
ntt_layer45_butterfly(x, zeta_subtree_index, start) ==
  LET z1 == mlkem_layer4_zetas[zeta_subtree_index + 1]
      z2 == mlkem_layer5_even_zetas[zeta_subtree_index + 1]
      z3 == mlkem_layer5_odd_zetas[zeta_subtree_index + 1]
  IN  [i \in Coeffs |->
         IF start <= i /\ i < start + 32
         THEN ntt_layer45_body(x, z1, z2, z3, start, (i - start) % 8)[i]
         ELSE x[i]]

(* The eight calls of ntt_layer45, as <<zeta_subtree_index, start>> *)
ntt_layer45_calls ==
  << <<0, 0>>, <<1, 32>>, <<2, 64>>, <<3, 96>>,
     <<4, 128>>, <<5, 160>>, <<6, 192>>, <<7, 224>> >>

(* Call k works on coefficients start .. start + 31 only, so coefficient i *)
(* of the result is the one written by the call whose range holds i        *)
ntt_layer45(x) ==
  [i \in Coeffs |->
     LET c == CHOOSE c \in {ntt_layer45_calls[k] : k \in 1 .. 8} :
                c[2] <= i /\ i < c[2] + 32
     IN  ntt_layer45_butterfly(x, c[1], c[2])[i]]

(* for (j = 0; j < 4; j++): iteration j is one butterfly on the            *)
(* coefficients start + j and start + j + 4                                *)
ntt_layer6_butterfly(x, zeta_index, start) ==
  LET zeta == mlkem_layer6_zetas[zeta_index + 1]
  IN  [i \in Coeffs |->
         IF start <= i /\ i < start + 8
         THEN LET j   == (i - start) % 4
                  ci1 == j + start
                  ci2 == ci1 + 4
              IN  ct_butterfly(x, ci1, ci2, zeta)[i]
         ELSE x[i]]

(* for (j = 0; j < 32; j++) ntt_layer6_butterfly(r, j, j * 8): call j      *)
(* works on coefficients 8j .. 8j + 7 only                                 *)
ntt_layer6(x) ==
  [i \in Coeffs |->
     LET j == i \div 8 IN ntt_layer6_butterfly(x, j, j * 8)[i]]

ntt_layer7_butterfly(x, zeta_index, start) ==
  LET zeta == mlkem_layer7_zetas[zeta_index + 1]
      ci0 == start
      ci1 == ci0 + 1
      ci2 == ci0 + 2
      ci3 == ci0 + 3
      c0 == x[ci0]
      c1 == x[ci1]
      c2 == x[ci2]
      c3 == x[ci3]
      zc2 == fqmul(c2, zeta)
      zc3 == fqmul(c3, zeta)
  IN  [x EXCEPT ![ci0] = ToInt16(c0 + zc2),
                ![ci1] = ToInt16(c1 + zc3),
                ![ci2] = ToInt16(c0 - zc2),
                ![ci3] = ToInt16(c1 - zc3)]

(* Faulty variant of ntt_layer7: the last layer is left out *)
ntt_layer7_skipped(x) == x

(* for (j = 0; j < 64; j++) ntt_layer7_butterfly(r, j, j * 4): call j      *)
(* works on coefficients 4j .. 4j + 3 only                                 *)
ntt_layer7(x) ==
  [i \in Coeffs |->
     LET j == i \div 4 IN ntt_layer7_butterfly(x, j, j * 4)[i]]

(***************************************************************************)
(* Inverse NTT (ntt.c, section 2.1)                                        *)
(***************************************************************************)
invntt_layer7_invert_butterfly(x, zeta_index, start) ==
  LET zeta == mlkem_layer7_zetas[zeta_index + 1]
      ci0 == start
      ci1 == ci0 + 1
      ci2 == ci0 + 2
      ci3 == ci0 + 3
      c0 == fqmul(x[ci0], MONT_F)
      c1 == fqmul(x[ci1], MONT_F)
      c2 == fqmul(x[ci2], MONT_F)
      c3 == fqmul(x[ci3], MONT_F)
  IN  [x EXCEPT ![ci0] = barrett_reduce(ToInt16(c0 + c2)),
                ![ci2] = fqmul(ToInt16(c2 - c0), zeta),
                ![ci1] = barrett_reduce(ToInt16(c1 + c3)),
                ![ci3] = fqmul(ToInt16(c3 - c1), zeta)]

(* Faulty variant of invntt_layer7_invert: the twiddles are taken in the   *)
(* order of the forward transform (index i instead of 63 - i)              *)
invntt_layer7_invert_forward_zetas(x) ==
  [k \in Coeffs |->
     LET i == k \div 4
     IN  invntt_layer7_invert_butterfly(x, i, i * 4)[k]]

(* for (i = 0; i < 64; i++) invntt_layer7_invert_butterfly(r, 63 - i,      *)
(* i * 4): call i works on coefficients 4i .. 4i + 3 only                  *)
invntt_layer7_invert(x) ==
  [k \in Coeffs |->
     LET i == k \div 4
     IN  invntt_layer7_invert_butterfly(x, 63 - i, i * 4)[k]]

invntt_layer6_butterfly(x, zeta_index, start) ==
  LET zeta == mlkem_layer6_zetas[zeta_index + 1]
      ci0 == start
      ci1 == ci0 + 1
      ci2 == ci0 + 2
      ci3 == ci0 + 3
      ci4 == ci0 + 4
      ci5 == ci0 + 5
      ci6 == ci0 + 6
      ci7 == ci0 + 7
      c0 == x[ci0]
      c1 == x[ci1]
      c2 == x[ci2]
      c3 == x[ci3]
      c4 == x[ci4]
      c5 == x[ci5]
      c6 == x[ci6]
      c7 == x[ci7]
  IN  [x EXCEPT ![ci0] = ToInt16(c0 + c4),
                ![ci4] = fqmul(ToInt16(c4 - c0), zeta),
                ![ci1] = ToInt16(c1 + c5),
                ![ci5] = fqmul(ToInt16(c5 - c1), zeta),
                ![ci2] = ToInt16(c2 + c6),
                ![ci6] = fqmul(ToInt16(c6 - c2), zeta),
                ![ci3] = ToInt16(c3 + c7),
                ![ci7] = fqmul(ToInt16(c7 - c3), zeta)]

(* for (i = 0; i < 32; i++) invntt_layer6_butterfly(r, 31 - i, i * 8):     *)
(* call i works on coefficients 8i .. 8i + 7 only                          *)
invntt_layer6(x) ==
  [k \in Coeffs |->
     LET i == k \div 8 IN invntt_layer6_butterfly(x, 31 - i, i * 8)[k]]

(* Faulty variant of invntt_layer54_body: the sums of layer 4 are stored   *)
(* without Barrett reduction                                               *)
invntt_layer54_body_deferred(x, l4zeta, l5zeta1, l5zeta2, start, j) ==
  LET ci0  == j + start
      ci8  == ci0 + 8
      ci16 == ci0 + 16
      ci24 == ci0 + 24
      s5 == LET c0  == x[ci0]
                c8  == x[ci8]
                c16 == x[ci16]
                c24 == x[ci24]
            IN  [x EXCEPT ![ci0]  = ToInt16(c0 + c8),
                          ![ci8]  = fqmul(ToInt16(c8 - c0), l5zeta2),
                          ![ci16] = ToInt16(c16 + c24),
                          ![ci24] = fqmul(ToInt16(c24 - c16), l5zeta1)]
      s4 == LET c0  == s5[ci0]
                c8  == s5[ci8]
                c16 == s5[ci16]
                c24 == s5[ci24]
            IN  [s5 EXCEPT ![ci0]  = ToInt16(c0 + c16),
                           ![ci16] = fqmul(ToInt16(c16 - c0), l4zeta),
                           ![ci8]  = ToInt16(c8 + c24),
                           ![ci24] = fqmul(ToInt16(c24 - c8), l4zeta)]
  IN  s4

(* Body of the loop of invntt_layer54_butterfly for one j *)
invntt_layer54_body(x, l4zeta, l5zeta1, l5zeta2, start, j) ==
  LET ci0  == j + start
      ci8  == ci0 + 8
      ci16 == ci0 + 16
      ci24 == ci0 + 24
      (* Layer 5: the sums of coefficients 0 and 16 are not reduced *)
      s5 == LET c0  == x[ci0]
                c8  == x[ci8]
                c16 == x[ci16]
                c24 == x[ci24]
            IN  [x EXCEPT ![ci0]  = ToInt16(c0 + c8),
                          ![ci8]  = fqmul(ToInt16(c8 - c0), l5zeta2),
                          ![ci16] = ToInt16(c16 + c24),
                          ![ci24] = fqmul(ToInt16(c24 - c16), l5zeta1)]
      (* Layer 4: every coefficient is reduced *)
      s4 == LET c0  == s5[ci0]
                c8  == s5[ci8]
                c16 == s5[ci16]
                c24 == s5[ci24]
            IN  [s5 EXCEPT ![ci0]  = barrett_reduce(ToInt16(c0 + c16)),
                           ![ci16] = fqmul(ToInt16(c16 - c0), l4zeta),
                           ![ci8]  = barrett_reduce(ToInt16(c8 + c24)),
                           ![ci24] = fqmul(ToInt16(c24 - c8), l4zeta)]
  IN  s4

(* for (j = 0; j < 8; j++): iteration j reads and writes only the          *)
(* coefficients start + j + {0, 8, 16, 24}                                 *)
invntt_layer54_butterfly(x, zeta_index, start) ==
  LET l4zeta  == mlkem_layer4_zetas[zeta_index + 1]
      l5zeta1 == mlkem_layer5_even_zetas[zeta_index + 1]
      l5zeta2 == mlkem_layer5_odd_zetas[zeta_index + 1]
  IN  [i \in Coeffs |->
         IF start <= i /\ i < start + 32
         THEN invntt_layer54_body(x, l4zeta, l5zeta1, l5zeta2, start,
                                  (i - start) % 8)[i]
         ELSE x[i]]

(* The eight calls of invntt_layer54, as <<zeta_index, start>> *)
invntt_layer54_calls ==
  << <<7, 0>>, <<6, 32>>, <<5, 64>>, <<4, 96>>,
     <<3, 128>>, <<2, 160>>, <<1, 192>>, <<0, 224>> >>

(* Call k works on coefficients start .. start + 31 only *)
invntt_layer54(x) ==
  [i \in Coeffs |->
     LET c == CHOOSE c \in {invntt_layer54_calls[k] : k \in 1 .. 8} :
                c[2] <= i /\ i < c[2] + 32
     IN  invntt_layer54_butterfly(x, c[1], c[2])[i]]

(* Faulty variant of gs_butterfly: the product with the twiddle is         *)
(* truncated to int16 instead of being Montgomery-reduced                  *)
gs_butterfly_unreduced(x, ca, cb, zeta) ==
  LET va == x[ca]
      vb == x[cb]
  IN  [x EXCEPT ![ca] = ToInt16(va + vb),
                ![cb] = ToInt16(ToInt16(vb - va) * zeta)]

(* One Gentleman-Sande butterfly of layers 3, 2, 1, the sum not reduced:   *)
(*   r[ca] = ca_val + cb_val; r[cb] = fqmul(cb_val - ca_val, zeta)         *)
(* Within one layer the coefficient pairs are disjoint, so reading all     *)
(* eight coefficients first and writing pair by pair coincide.             *)
gs_butterfly(x, ca, cb, zeta) ==
  LET va == x[ca]
      vb == x[cb]
  IN  [x EXCEPT ![ca] = ToInt16(va + vb),
                ![cb] = fqmul(ToInt16(vb - va), zeta)]

(* Body of the loop of invntt_layer321 for one j *)
invntt_layer321_body(x, j) ==
  LET ci0   == j + 0
      ci32  == j + 32
      ci64  == j + 64
      ci96  == j + 96
      ci128 == j + 128
      ci160 == j + 160
      ci192 == j + 192
      ci224 == j + 224
      (* Layer 3 *)
      s1  == gs_butterfly(x,   ci0,   ci32,  mlkem_l3zeta7)
      s2  == gs_butterfly(s1,  ci64,  ci96,  mlkem_l3zeta6)
      s3  == gs_butterfly(s2,  ci128, ci160, mlkem_l3zeta5)
      s4  == gs_butterfly(s3,  ci192, ci224, mlkem_l3zeta4)
      (* Layer 2 *)
      s5  == gs_butterfly(s4,  ci0,   ci64,  mlkem_l2zeta3)
      s6  == gs_butterfly(s5,  ci32,  ci96,  mlkem_l2zeta3)
      s7  == gs_butterfly(s6,  ci128, ci192, mlkem_l2zeta2)
      s8  == gs_butterfly(s7,  ci160, ci224, mlkem_l2zeta2)
      (* Layer 1 *)
      s9  == gs_butterfly(s8,  ci0,   ci128, mlkem_l1zeta1)
      s10 == gs_butterfly(s9,  ci32,  ci160, mlkem_l1zeta1)
      s11 == gs_butterfly(s10, ci64,  ci192, mlkem_l1zeta1)
      s12 == gs_butterfly(s11, ci96,  ci224, mlkem_l1zeta1)
  IN  s12

(* for (j = 0; j < 32; j++): iteration j reads and writes only the         *)
(* coefficients j, j + 32, ..., j + 224                                    *)
invntt_layer321(x) ==
  [i \in Coeffs |-> invntt_layer321_body(x, i % 32)[i]]

(***************************************************************************)
(* Base multiplication with a mulcache (poly.c)                            *)
(***************************************************************************)
(* Congruence modulo q of two int values *)
Congruent(x, y) == (x - y) % MLKEM_Q = 0

(* Faulty variant of basemul_cached: the 32-bit sums are truncated to      *)
(* int16 instead of being Montgomery-reduced                               *)
basemul_cached_unreduced(x, y, k, b_cached) ==
  LET t0 == x[k + 1] * b_cached + x[k] * y[k]
      t1 == x[k] * y[k + 1] + x[k + 1] * y[k]
  IN  <<ToInt16(t0), ToInt16(t1)>>

(* basemul_cached(&r[k], &a[k], &b[k], b_cached): the pair <<r[0], r[1]>>  *)
(* it writes. With |a| <= 4095 the sums t0, t1 stay within int32.          *)
basemul_cached(x, y, k, b_cached) ==
  LET t0 == x[k + 1] * b_cached + x[k] * y[k]
      t1 == x[k] * y[k + 1] + x[k + 1] * y[k]
  IN  <<montgomery_reduce(t0), montgomery_reduce(t1)>>

(* Faulty variant of poly_basemul_montgomery_cached: the second base       *)
(* multiplication of an iteration reuses the cache entry of the first      *)
poly_basemul_montgomery_cached_same_entry(r0, x, y, cache) ==
  [k \in Coeffs |->
     LET i == k \div 4
     IN  IF i \in 0 .. (MLKEM_N \div 4 - 1)
         THEN IF k % 4 < 2
              THEN basemul_cached(x, y, 4 * i, cache[2 * i])[(k % 4) + 1]
              ELSE basemul_cached(x, y, 4 * i + 2,
                                  cache[2 * i])[(k % 4) - 1]
         ELSE r0[k]]

(* for (i = 0; i < MLKEM_N / 4; i++) two calls of basemul_cached, on       *)
(* coefficients 4i, 4i+1 with b_cache[2i] and on 4i+2, 4i+3 with           *)
(* b_cache[2i+1]. The iterations write disjoint coefficients, so           *)
(* coefficient k of the result is the one iteration k / 4 writes; a        *)
(* coefficient no iteration writes keeps its value r0[k].                  *)
poly_basemul_montgomery_cached(r0, x, y, cache) ==
  [k \in Coeffs |->
     LET i == k \div 4
     IN  IF i \in 0 .. (MLKEM_N \div 4 - 1)
         THEN IF k % 4 < 2
              THEN basemul_cached(x, y, 4 * i, cache[2 * i])[(k % 4) + 1]
              ELSE basemul_cached(x, y, 4 * i + 2,
                                  cache[2 * i + 1])[(k % 4) - 1]
         ELSE r0[k]]

CacheIdx == 0 .. (MLKEM_N \div 2 - 1)

(* Faulty variant of poly_mulcache_compute: the odd entries are computed   *)
(* with the twiddle itself instead of its negation                         *)
poly_mulcache_compute_same_sign(x0, x) ==
  [k \in CacheIdx |->
     LET i == k \div 2
     IN  IF i \in 0 .. (MLKEM_N \div 4 - 1)
         THEN IF k % 2 = 0
              THEN fqmul(x[4 * i + 1], mlkem_layer7_zetas[i + 1])
              ELSE fqmul(x[4 * i + 3], mlkem_layer7_zetas[i + 1])
         ELSE x0[k]]

(* for (i = 0; i < MLKEM_N / 4; i++):                                      *)
(*   x[2i]   = fqmul(a[4i+1],  mlkem_layer7_zetas[i]);                     *)
(*   x[2i+1] = fqmul(a[4i+3], -mlkem_layer7_zetas[i]);                     *)
(* x0 is the previous content of the cache.                                *)
poly_mulcache_compute(x0, x) ==
  [k \in CacheIdx |->
     LET i == k \div 2
     IN  IF i \in 0 .. (MLKEM_N \div 4 - 1)
         THEN IF k % 2 = 0
              THEN fqmul(x[4 * i + 1], mlkem_layer7_zetas[i + 1])
              ELSE fqmul(x[4 * i + 3], ToInt16(-mlkem_layer7_zetas[i + 1]))
         ELSE x0[k]]

(***************************************************************************)
(* Reduction and 12-bit (de)serialization (poly.c)                         *)
(***************************************************************************)
(* Faulty variant of poly_reduce: the signed representative of the Barrett *)
(* reduction is stored without the conditional addition of q               *)
poly_reduce_signed(x) ==
  [i \in Coeffs |-> barrett_reduce(x[i])]

(* for (i = 0; i < MLKEM_N; i++)                                           *)
(*   r[i] = scalar_signed_to_unsigned_q(barrett_reduce(r[i]));             *)
poly_reduce(x) ==
  [i \in Coeffs |->
     LET t == barrett_reduce(x[i])
     IN  ToInt16(scalar_signed_to_unsigned_q(t))]

(* Faulty variant of poly_add: the coefficients of b are subtracted *)
poly_add_subtracting(x, y) == [i \in Coeffs |-> ToInt16(x[i] - y[i])]

(* for (i = 0; i < MLKEM_N; i++)                                           *)
(*   r->coeffs[i] = r->coeffs[i] + b->coeffs[i];                           *)
poly_add(x, y) == [i \in Coeffs |-> ToInt16(x[i] + y[i])]

ByteIdx == 0 .. (MLKEM_POLYBYTES - 1)

(* Faulty variant of poly_tobytes: the middle byte takes the high nibble   *)
(* of t1 instead of its low nibble                                         *)
poly_tobytes_high_nibble(x) ==
  [k \in ByteIdx |->
     LET i  == k \div 3
         t0 == ToUint16(x[2 * i])
         t1 == ToUint16(x[2 * i + 1])
     IN  CASE k % 3 = 0 -> ToUint8(BitAnd(t0, 255))
           [] k % 3 = 1 -> ToUint8(BitOr(t0 \div 256, BitAnd(t1, 240)))
           [] k % 3 = 2 -> ToUint8(t1 \div 16)]

(* for (i = 0; i < MLKEM_N / 2; i++), with uint16 t0 = a[2i], t1 = a[2i+1]:*)
(*   r[3i+0] = t0 & 0xFF;                                                  *)
(*   r[3i+1] = (t0 >> 8) | ((t1 << 4) & 0xF0);                             *)
(*   r[3i+2] = t1 >> 4;                                                    *)
(* each stored into a uint8. Byte k is written by iteration k / 3, and     *)
(* the iterations 0 .. 127 cover the MLKEM_POLYBYTES bytes.                *)
poly_tobytes(x) ==
  [k \in ByteIdx |->
     LET i  == k \div 3
         t0 == ToUint16(x[2 * i])
         t1 == ToUint16(x[2 * i + 1])
     IN  CASE k % 3 = 0 -> ToUint8(BitAnd(t0, 255))
           [] k % 3 = 1 -> ToUint8(BitOr(t0 \div 256, BitAnd(t1 * 16, 240)))
           [] k % 3 = 2 -> ToUint8(t1 \div 16)]

(* Faulty variant of poly_frombytes: the even coefficient is not masked    *)
(* to 12 bits                                                              *)
poly_frombytes_unmasked(y) ==
  [k \in Coeffs |->
     LET i  == k \div 2
         t0 == y[3 * i]
         t1 == y[3 * i + 1]
         t2 == y[3 * i + 2]
     IN  IF k % 2 = 0
         THEN ToInt16(BitOr(t0, t1 * 256))
         ELSE ToInt16(BitOr(t1 \div 16, t2 * 16))]

(* Faulty variant of poly_frombytes: the even coefficient is masked to 8   *)
(* bits instead of 12                                                      *)
poly_frombytes_mask8(y) ==
  [k \in Coeffs |->
     LET i  == k \div 2
         t0 == y[3 * i]
         t1 == y[3 * i + 1]
         t2 == y[3 * i + 2]
     IN  IF k % 2 = 0
         THEN ToInt16(BitOr(t0, BitAnd(t1 * 256, 255)))
         ELSE ToInt16(BitOr(t1 \div 16, t2 * 16))]

(* for (i = 0; i < MLKEM_N / 2; i++), with uint8 t0, t1, t2 = a[3i .. 3i+2]*)
(*   r[2i+0] = t0 | ((t1 << 8) & 0xFFF);                                   *)
(*   r[2i+1] = (t1 >> 4) | (t2 << 4);                                      *)
poly_frombytes(y) ==
  [k \in Coeffs |->
     LET i  == k \div 2
         t0 == y[3 * i]
         t1 == y[3 * i + 1]
         t2 == y[3 * i + 2]
     IN  IF k % 2 = 0
         THEN ToInt16(BitOr(t0, BitAnd(t1 * 256, 4095)))
         ELSE ToInt16(BitOr(t1 \div 16, t2 * 16))]

(***************************************************************************)
(* Input polynomials                                                       *)
(***************************************************************************)
NumSeeds == 4

ZeroPoly == [i \in Coeffs |-> 0]
ZeroCache == [i \in CacheIdx |-> 0]
NoBytes == [k \in ByteIdx |-> 0]

(* No noise sampled, nothing traced *)
MsgIdx == 0 .. (MLKEM_N \div 8 - 1)
NoMsg == [i \in MsgIdx |-> 0]
NoSeed == [i \in 0 .. (MLKEM_SYMBYTES - 1) |-> 0]
NoNonces == <<0, 0, 0, 0>>
NoNoise == <<ZeroPoly, ZeroPoly, ZeroPoly, ZeroPoly>>
NoTrace == << >>

(* All coefficients equal to v *)
ConstPoly(v) == [i \in Coeffs |-> v]

(* Coefficient k equal to v, all others zero *)
SpikePoly(k, v) == [i \in Coeffs |-> IF i = k THEN v ELSE 0]

(* Coefficients +v or -v, the sign given by the parity of the bits of the  *)
(* index selected by mask m                                                *)
RECURSIVE Parity(_)
Parity(n) == IF n = 0 THEN 0 ELSE ((n % 2) + Parity(n \div 2)) % 2

SignPoly(m, v) ==
  [i \in Coeffs |-> IF Parity(BitAnd(i, m)) = 0 THEN v ELSE -v]

(* Deterministic scattered values in [lo, hi], one polynomial per seed s *)
Scatter(s, i) == (s * s * 7919 + (i + 1) * (s + 3) * 104729 + i * i * 613
                  + (i \div 7) * 40503 * s)

MixPoly(s, lo, hi) == [i \in Coeffs |-> lo + (Scatter(s, i) % (hi - lo + 1))]

Seeds == 1 .. NumSeeds

(* An int16 input on which the two differences that invntt_layer6 adds at  *)
(* coefficient 2 both come out of invntt_layer7_invert above q/2           *)
Layer6StressPoly ==
  [i \in Coeffs |-> CASE i = 0 -> -30011
                     [] i = 2 -> 30011
                     [] i = 4 -> -31383
                     [] i = 6 -> 31669
                     [] OTHER -> 0]

(* Inputs of poly_ntt: normal order, |coefficient| < q *)
NttInputs ==
  {SpikePoly(k, 1) : k \in Coeffs}
  \cup {SpikePoly(k, MLKEM_Q - 1) : k \in {0, 1, 255}}
  \cup {ConstPoly(v) : v \in {0, MLKEM_Q - 1, -(MLKEM_Q - 1)}}
  \cup {SignPoly(m, MLKEM_Q - 1) : m \in {1, 85, 128, 255}}
  \cup {MixPoly(s, -(MLKEM_Q - 1), MLKEM_Q - 1) : s \in Seeds}

(* Inputs of poly_invntt_tomont: any int16 coefficients *)
InvNttInputs ==
  {ConstPoly(v) : v \in {INT16_MIN, INT16_MAX}}
  \cup {SignPoly(m, INT16_MAX) : m \in {2, 170}}
  \cup {Layer6StressPoly}
  \cup {MixPoly(s, INT16_MIN, INT16_MAX) : s \in Seeds}

(***************************************************************************)
(* Spec: poly_ntt and poly_invntt_tomont, one step per layer function      *)
(***************************************************************************)
Init ==
  /\ pc = "start"
  /\ r \in NttInputs \cup InvNttInputs
  /\ p = r
  /\ ntt_of_p = FALSE
  /\ a = ZeroPoly
  /\ b = ZeroPoly
  /\ b_cache = ZeroCache
  /\ bytes = NoBytes
  /\ mlkem_k = MLKEM_K
  /\ msg = NoMsg
  /\ seed = NoSeed
  /\ nonce = NoNonces
  /\ noise = NoNoise
  /\ trace = NoTrace

(* poly_ntt: entry check POLY_BOUND_MSG(p, MLKEM_Q), then ntt_layer123 *)
Do_ntt_layer123 ==
  /\ pc = "start"
  /\ array_abs_bound(r, MLKEM_Q - 1)
  /\ r' = ntt_layer123(r)
  /\ pc' = "ntt_layer123"
  /\ UNCHANGED <<p, ntt_of_p, a, b, b_cache, bytes, build_vars>>

Do_ntt_layer45 ==
  /\ pc = "ntt_layer123"
  /\ r' = ntt_layer45(r)
  /\ pc' = "ntt_layer45"
  /\ UNCHANGED <<p, ntt_of_p, a, b, b_cache, bytes, build_vars>>

Do_ntt_layer6 ==
  /\ pc = "ntt_layer45"
  /\ r' = ntt_layer6(r)
  /\ pc' = "ntt_layer6"
  /\ UNCHANGED <<p, ntt_of_p, a, b, b_cache, bytes, build_vars>>

(* last step of poly_ntt: r now holds the transform of p *)
Do_ntt_layer7 ==
  /\ pc = "ntt_layer6"
  /\ r' = ntt_layer7(r)
  /\ pc' = "ntt_done"
  /\ ntt_of_p' = TRUE
  /\ UNCHANGED <<p, a, b, b_cache, bytes, build_vars>>

(* poly_invntt_tomont: no precondition on the coefficients *)
Do_invntt_layer7_invert ==
  /\ pc \in {"start", "ntt_done"}
  /\ r' = invntt_layer7_invert(r)
  /\ pc' = "invntt_layer7"
  /\ UNCHANGED <<p, ntt_of_p, a, b, b_cache, bytes, build_vars>>

Do_invntt_layer6 ==
  /\ pc = "invntt_layer7"
  /\ r' = invntt_layer6(r)
  /\ pc' = "invntt_layer6"
  /\ UNCHANGED <<p, ntt_of_p, a, b, b_cache, bytes, build_vars>>

Do_invntt_layer54 ==
  /\ pc = "invntt_layer6"
  /\ r' = invntt_layer54(r)
  /\ pc' = "invntt_layer54"
  /\ UNCHANGED <<p, ntt_of_p, a, b, b_cache, bytes, build_vars>>

Do_invntt_layer321 ==
  /\ pc = "invntt_layer54"
  /\ r' = invntt_layer321(r)
  /\ pc' = "invntt_done"
  /\ UNCHANGED <<p, ntt_of_p, a, b, b_cache, bytes, build_vars>>

Next ==
  \/ Do_ntt_layer123
  \/ Do_ntt_layer45
  \/ Do_ntt_layer6
  \/ Do_ntt_layer7
  \/ Do_invntt_layer7_invert
  \/ Do_invntt_layer6
  \/ Do_invntt_layer54
  \/ Do_invntt_layer321

Spec == Init /\ [][Next]_vars

(***************************************************************************)
(* Properties of poly_ntt and poly_invntt_tomont (checked under Spec)      *)
(***************************************************************************)

(* C1: for every input with all |coefficient| < q, the coefficients are    *)
(* bounded in absolute value by 4q-1 after ntt_layer123, by 6q-1 after     *)
(* ntt_layer45, by 7q-1 after ntt_layer6 and by 8q-1 after ntt_layer7, so  *)
(* every coefficient of the output of poly_ntt is below 8q.                *)
C1_NttLayerBounds ==
  /\ (pc = "ntt_layer123" => array_abs_bound(r, NTT_BOUND4))
  /\ (pc = "ntt_layer45"  => array_abs_bound(r, NTT_BOUND6))
  /\ (pc = "ntt_layer6"   => array_abs_bound(r, NTT_BOUND7))
  /\ (pc = "ntt_done"     => array_abs_bound(r, NTT_BOUND8)
                             /\ \A i \in Coeffs : Abs(r[i]) < 8 * MLKEM_Q)

(* poly_ntt has run on an input below q and the deferred reductions show:  *)
(* some output coefficient has left the range of the input                 *)
C1_Witness ==
  /\ pc = "ntt_done"
  /\ array_abs_bound(p, MLKEM_Q - 1)
  /\ \E i \in Coeffs : Abs(r[i]) >= 2 * MLKEM_Q

(* C2: for every input of arbitrary int16 coefficients, the coefficients   *)
(* are bounded in absolute value by q-1 after invntt_layer7_invert, by     *)
(* 2q-1 after invntt_layer6, by q-1 after invntt_layer54 and by 8q-1 after *)
(* invntt_layer321.                                                        *)
C2_InvNttLayerBounds ==
  /\ (pc = "invntt_layer7"  => array_abs_bound(r, NTT_BOUND1))
  /\ (pc = "invntt_layer6"  => array_abs_bound(r, NTT_BOUND2))
  /\ (pc = "invntt_layer54" => array_abs_bound(r, NTT_BOUND1))
  /\ (pc = "invntt_done"    => array_abs_bound(r, NTT_BOUND8))

(* invntt_layer6 has run on an input with int16 coefficients beyond 8q and *)
(* has left a coefficient above q - 1, within 2q - 1                       *)
C2_Witness ==
  /\ pc = "invntt_layer6"
  /\ ~ntt_of_p
  /\ \E i \in Coeffs : Abs(p[i]) > NTT_BOUND8
  /\ \E i \in Coeffs : Abs(r[i]) > NTT_BOUND1

C4_InvNttOfNtt ==
  (pc = "invntt_done" /\ ntt_of_p) =>
    \A i \in Coeffs : (r[i] - p[i] * 65536) % MLKEM_Q = 0

(* the round trip has run on a polynomial with a nonzero coefficient that  *)
(* comes back changed by the Montgomery factor                             *)
C4_Witness ==
  /\ pc = "invntt_done"
  /\ ntt_of_p
  /\ \E i \in Coeffs : p[i] # 0 /\ r[i] # p[i]
  /\ \E i, j \in Coeffs : p[i] # p[j]

(***************************************************************************)
(* SpecBasemul: poly_mulcache_compute and poly_basemul_montgomery_cached   *)
(***************************************************************************)
(* First operands: |coefficient| <= UINT12_MAX, the extremes included *)
BasemulAInputs ==
  {ConstPoly(v) : v \in {UINT12_MAX, -UINT12_MAX}}
  \cup {MixPoly(s, -UINT12_MAX, UINT12_MAX) : s \in Seeds}

(* Second operands: any int16 coefficients *)
BasemulBInputs ==
  {ConstPoly(v) : v \in {INT16_MIN, INT16_MAX}}
  \cup {MixPoly(s, INT16_MIN, INT16_MAX) : s \in Seeds}

(* Mulcaches that were not computed from b: any int16 entries *)
CacheInputs ==
  {[k \in CacheIdx |-> v] : v \in {INT16_MIN, INT16_MAX}}
  \cup {[k \in CacheIdx |-> INT16_MIN + (Scatter(1, 2 * k + 1) % 65536)]}

(* Contents of an output buffer before it is written *)
UnwrittenPolys == {ConstPoly(INT16_MIN), ConstPoly(INT16_MAX)}

InitBasemul ==
  /\ pc = "bm_start"
  /\ r \in UnwrittenPolys
  /\ p = r
  /\ ntt_of_p = FALSE
  /\ a \in BasemulAInputs
  /\ b \in BasemulBInputs
  /\ b_cache \in CacheInputs
  /\ bytes = NoBytes
  /\ mlkem_k = MLKEM_K
  /\ msg = NoMsg
  /\ seed = NoSeed
  /\ nonce = NoNonces
  /\ noise = NoNoise
  /\ trace = NoTrace

(* poly_mulcache_compute(&b_cache, &b) *)
Do_poly_mulcache_compute ==
  /\ pc = "bm_start"
  /\ b_cache' = poly_mulcache_compute(b_cache, b)
  /\ pc' = "cached"
  /\ UNCHANGED <<r, p, ntt_of_p, a, b, bytes, build_vars>>

(* poly_basemul_montgomery_cached(&r, &a, &b, &b_cache), with the cache    *)
(* of b or with a cache given by the caller; basemul_cached requires       *)
(* |a| <= UINT12_MAX                                                       *)
Do_poly_basemul_montgomery_cached ==
  /\ pc \in {"bm_start", "cached"}
  /\ array_abs_bound(a, UINT12_MAX)
  /\ r' = poly_basemul_montgomery_cached(r, a, b, b_cache)
  /\ pc' = "basemul_done"
  /\ UNCHANGED <<p, ntt_of_p, a, b, b_cache, bytes, build_vars>>

NextBasemul ==
  \/ Do_poly_mulcache_compute
  \/ Do_poly_basemul_montgomery_cached

SpecBasemul == InitBasemul /\ [][NextBasemul]_vars

C6_BasemulValue ==
  pc = "basemul_done" =>
    \A i \in 0 .. 63 : \A h \in {0, 1} :
      LET k == 4 * i + 2 * h
          c == b_cache[2 * i + h]
      IN  /\ Congruent((r[k] % MLKEM_Q) * 65536,
                       a[k + 1] * c + a[k] * b[k])
          /\ Congruent((r[k + 1] % MLKEM_Q) * 65536,
                       a[k] * b[k + 1] + a[k + 1] * b[k])

(* a product has been computed in which the two cache entries of some      *)
(* iteration differ and are both used                                      *)
C6_Witness ==
  /\ pc = "basemul_done"
  /\ \E i \in 0 .. 63 :
       /\ b_cache[2 * i] # b_cache[2 * i + 1]
       /\ a[4 * i + 1] # 0
       /\ a[4 * i + 3] # 0
       /\ r[4 * i] # r[4 * i + 2]

(* C7: for every a of arbitrary int16 coefficients and each i in 0 .. 63,  *)
(* poly_mulcache_compute sets x[2i] = fqmul(a[4i+1], zeta_i) and           *)
(* x[2i+1] = fqmul(a[4i+3], -zeta_i) with zeta_i = mlkem_layer7_zetas[i],  *)
(* so x[2i] ~ a[4i+1]*zeta_i*2^-16 and x[2i+1] ~ -a[4i+3]*zeta_i*2^-16     *)
(* modulo q, and each of the 128 entries has absolute value < q.           *)
C7_MulcacheValue ==
  pc = "cached" =>
    /\ \A i \in 0 .. 63 :
         LET zeta == mlkem_layer7_zetas[i + 1]
         IN  /\ b_cache[2 * i] = fqmul(b[4 * i + 1], zeta)
             /\ b_cache[2 * i + 1] = fqmul(b[4 * i + 3], -zeta)
             /\ Congruent((b_cache[2 * i] % MLKEM_Q) * 65536,
                          b[4 * i + 1] * zeta)
             /\ Congruent((b_cache[2 * i + 1] % MLKEM_Q) * 65536,
                          -(b[4 * i + 3] * zeta))
    /\ \A k \in CacheIdx : Abs(b_cache[k]) < MLKEM_Q
    /\ DOMAIN b_cache = 0 .. 127

(* the cache has been computed from a polynomial holding INT16_MIN *)
C7_Witness ==
  /\ pc = "cached"
  /\ \E i \in 0 .. 63 : b[4 * i + 1] = INT16_MIN /\ b_cache[2 * i] # 0
  /\ \E i \in 0 .. 63 : b[4 * i + 3] = INT16_MIN /\ b_cache[2 * i + 1] # 0

(***************************************************************************)
(* SpecBytes: poly_reduce, poly_tobytes, poly_frombytes                    *)
(***************************************************************************)
(* The int16 values MLKEM_N * k + i - 2^15: over all k, every int16 value  *)
RampPoly(k) == [i \in Coeffs |-> INT16_MIN + MLKEM_N * k + i]

AltPoly(u, v) == [i \in Coeffs |-> IF i % 2 = 0 THEN u ELSE v]

(* Canonical polynomials: every coefficient in [0, q) *)
CanonInputs ==
  {ConstPoly(v) : v \in {0, MLKEM_Q - 1}}
  \cup {AltPoly(u, MLKEM_Q - 1 - u) : u \in {0, MLKEM_Q - 1, 2748, 1929}}
  \cup {MixPoly(s, 0, MLKEM_Q - 1) : s \in Seeds}

BytesInputs ==
  {RampPoly(k) : k \in 0 .. (65536 \div MLKEM_N - 1)}
  \cup {AltPoly(INT16_MIN, INT16_MAX)}
  \cup CanonInputs

(* Byte strings that were not produced by poly_tobytes. Triple i of       *)
(* RawBytes(n) is built from g = 128 n + i so that, over n in 0 .. 31,      *)
(* (t0, t1 & 15) and (t1 >> 4, t2) each take all 4096 values.               *)
RawBytes(n) ==
  [k \in ByteIdx |->
     LET g == 128 * n + k \div 3
     IN  CASE k % 3 = 0 -> g % 256
           [] k % 3 = 1 -> (g \div 256) + 16 * (g % 16)
           [] k % 3 = 2 -> g \div 16]

RawByteInputs ==
  {RawBytes(n) : n \in 0 .. (4096 \div (MLKEM_N \div 2) - 1)}
  \cup {[k \in ByteIdx |-> 255]}

InitBytes ==
  /\ \/ /\ pc = "by_start"
        /\ r \in BytesInputs
        /\ bytes = NoBytes
     \/ /\ pc = "raw"
        /\ r = ZeroPoly
        /\ bytes \in RawByteInputs
  /\ p = r
  /\ ntt_of_p = FALSE
  /\ a = ZeroPoly
  /\ b = ZeroPoly
  /\ b_cache = ZeroCache
  /\ mlkem_k = MLKEM_K
  /\ msg = NoMsg
  /\ seed = NoSeed
  /\ nonce = NoNonces
  /\ noise = NoNoise
  /\ trace = NoTrace

(* poly_reduce(&r); p keeps the value before the call *)
Do_poly_reduce ==
  /\ pc = "by_start"
  /\ r' = poly_reduce(r)
  /\ pc' = "reduced"
  /\ UNCHANGED <<p, ntt_of_p, a, b, b_cache, bytes, build_vars>>

(* poly_tobytes(bytes, &r); the caller passes canonical coefficients       *)
(* (POLY_UBOUND(a, MLKEM_Q))                                               *)
Do_poly_tobytes ==
  /\ pc \in {"by_start", "reduced"}
  /\ array_bound(r, 0, MLKEM_Q - 1)
  /\ bytes' = poly_tobytes(r)
  /\ pc' = "packed"
  /\ UNCHANGED <<r, p, ntt_of_p, a, b, b_cache, build_vars>>

(* poly_frombytes(&a, bytes), on the output of poly_tobytes or on bytes    *)
(* received from elsewhere                                                 *)
Do_poly_frombytes ==
  /\ pc \in {"packed", "raw"}
  /\ a' = poly_frombytes(bytes)
  /\ pc' = IF pc = "packed" THEN "unpacked" ELSE "unpacked_raw"
  /\ UNCHANGED <<r, p, ntt_of_p, b, b_cache, bytes, build_vars>>

NextBytes ==
  \/ Do_poly_reduce
  \/ Do_poly_tobytes
  \/ Do_poly_frombytes

SpecBytes == InitBytes /\ [][NextBytes]_vars

(* C8: for every polynomial of arbitrary int16 coefficients, after         *)
(* poly_reduce each coefficient lies in [0, q) and is congruent modulo q   *)
(* to the value it had before the call.                                    *)
C8_ReduceCanonical ==
  pc = "reduced" =>
    \A i \in Coeffs : /\ 0 <= r[i]
                      /\ r[i] < MLKEM_Q
                      /\ Congruent(r[i], p[i])

(* poly_reduce has run on a polynomial holding both ends of the int16     *)
(* range and has changed them                                              *)
C8_Witness ==
  /\ pc = "reduced"
  /\ \E i \in Coeffs : p[i] = INT16_MIN /\ r[i] # p[i]
  /\ \E i \in Coeffs : p[i] = INT16_MAX /\ r[i] # p[i]

(* C9: for every polynomial p with all coefficients in [0, q),             *)
(* poly_frombytes(poly_tobytes(p)) equals p coefficient by coefficient.    *)
C9_BytesRoundTrip ==
  pc = "unpacked" => \A i \in Coeffs : a[i] = r[i]

(* a canonical polynomial holding q - 1 and a coefficient of more than 8   *)
(* bits has been packed and unpacked                                       *)
C9_Witness ==
  /\ pc = "unpacked"
  /\ array_bound(r, 0, MLKEM_Q - 1)
  /\ \E i \in Coeffs : r[i] = MLKEM_Q - 1
  /\ \E i \in Coeffs : i % 2 = 0 /\ r[i] > 255 /\ r[i] < MLKEM_Q - 1

(* C10: for every canonical polynomial and each i in 0 .. 127, with        *)
(* t0 = coeff[2i] and t1 = coeff[2i+1], poly_tobytes writes                *)
(* byte 3i = low 8 bits of t0, byte 3i+1 = bits 8..11 of t0 in the low     *)
(* nibble and bits 0..3 of t1 in the high nibble, byte 3i+2 = bits 4..11   *)
(* of t1; the output is exactly 384 bytes.                                 *)
C10_TobytesLayout ==
  pc = "packed" =>
    /\ DOMAIN bytes = 0 .. 383
    /\ Cardinality(DOMAIN bytes) = 384
    /\ \A i \in 0 .. 127 :
         LET t0 == r[2 * i]
             t1 == r[2 * i + 1]
         IN  /\ bytes[3 * i] = t0 % 256
             /\ bytes[3 * i + 1] = (t0 \div 256) + 16 * (t1 % 16)
             /\ bytes[3 * i + 2] = t1 \div 16

(* a pair has been packed in which every one of the four bit fields is     *)
(* nonzero                                                                 *)
C10_Witness ==
  /\ pc = "packed"
  /\ \E i \in 0 .. 127 :
       /\ r[2 * i] % 256 # 0
       /\ r[2 * i] \div 256 # 0
       /\ r[2 * i + 1] % 16 # 0
       /\ r[2 * i + 1] \div 16 # 0

(* C11: for every 384-byte input, with no restriction on the byte values,  *)
(* every coefficient produced by poly_frombytes lies in [0, 4095]; the     *)
(* output need not be canonical.                                           *)
C11_FrombytesRange ==
  pc = "unpacked_raw" =>
    \A i \in Coeffs : 0 <= a[i] /\ a[i] <= 4095

(* poly_frombytes has produced a coefficient equal to 4095 and another     *)
(* one in [q, 4095), neither canonical                                     *)
C11_Witness ==
  /\ pc = "unpacked_raw"
  /\ \E i \in Coeffs : a[i] = 4095
  /\ \E i \in Coeffs : a[i] >= MLKEM_Q /\ a[i] < 4095

(***************************************************************************)
(* Parameter sets (params.h) and scalar codecs (poly.h)                    *)
(***************************************************************************)
ParameterSets == {2, 3, 4}

MLKEM_ETA1(k) == IF k = 2 THEN 3 ELSE 2
MLKEM_POLYCOMPRESSEDBYTES_DV(k) == IF k = 4 THEN 160 ELSE 128
MLKEM_POLYCOMPRESSEDBYTES_DU(k) == IF k = 4 THEN 352 ELSE 320

(* Bit widths d of the two compressions: 32 d bytes hold 256 d-bit values *)
BitsDU(k) == MLKEM_POLYCOMPRESSEDBYTES_DU(k) \div (MLKEM_N \div 8)
BitsDV(k) == MLKEM_POLYCOMPRESSEDBYTES_DV(k) \div (MLKEM_N \div 8)

Shr(x, n) == x \div (2 ^ n)
Shl(x, n) == x * (2 ^ n)
Bit(x, n) == (x \div (2 ^ n)) % 2

(* scalar_compress_d<d>(u), u in [0, q): round(u * 2^d / q) mod 2^d,       *)
(* computed as ((uint32_t)u * 2^d + q / 2) / q mod 2^d                     *)
scalar_compress(d, u) == ((u * (2 ^ d) + MLKEM_Q \div 2) \div MLKEM_Q) % (2 ^ d)
scalar_compress_d1(u) == scalar_compress(1, u)
scalar_compress_d4(u) == scalar_compress(4, u)
scalar_compress_d5(u) == scalar_compress(5, u)
scalar_compress_d10(u) == scalar_compress(10, u)
scalar_compress_d11(u) == scalar_compress(11, u)

(* scalar_decompress_d<d>(u), u in [0, 2^d): (u * q + 2^(d-1)) >> d *)
scalar_decompress(d, u) == (u * MLKEM_Q + 2 ^ (d - 1)) \div (2 ^ d)
scalar_decompress_d4(u) == scalar_decompress(4, u)
scalar_decompress_d5(u) == scalar_decompress(5, u)
scalar_decompress_d10(u) == scalar_decompress(10, u)
scalar_decompress_d11(u) == scalar_decompress(11, u)

(***************************************************************************)
(* Compression codecs (poly.c)                                             *)
(***************************************************************************)
(* poly_compress_du, MLKEM_POLYCOMPRESSEDBYTES_DU == 352: byte m is        *)
(* written by iteration j = m / 11 from t[0 .. 7]                          *)
poly_compress_du_352(x) ==
  [m \in 0 .. 351 |->
     LET j == m \div 11
         t(k) == ToUint16(scalar_compress_d11(ToUint16(x[8 * j + k])))
     IN  ToUint8(
         CASE m % 11 = 0  -> BitAnd(Shr(t(0), 0), 255)
           [] m % 11 = 1  -> BitOr(Shr(t(0), 8), BitAnd(Shl(t(1), 3), 255))
           [] m % 11 = 2  -> BitOr(Shr(t(1), 5), BitAnd(Shl(t(2), 6), 255))
           [] m % 11 = 3  -> BitAnd(Shr(t(2), 2), 255)
           [] m % 11 = 4  -> BitOr(Shr(t(2), 10), BitAnd(Shl(t(3), 1), 255))
           [] m % 11 = 5  -> BitOr(Shr(t(3), 7), BitAnd(Shl(t(4), 4), 255))
           [] m % 11 = 6  -> BitOr(Shr(t(4), 4), BitAnd(Shl(t(5), 7), 255))
           [] m % 11 = 7  -> BitAnd(Shr(t(5), 1), 255)
           [] m % 11 = 8  -> BitOr(Shr(t(5), 9), BitAnd(Shl(t(6), 2), 255))
           [] m % 11 = 9  -> BitOr(Shr(t(6), 6), BitAnd(Shl(t(7), 5), 255))
           [] m % 11 = 10 -> Shr(t(7), 3))]

(* poly_compress_du, MLKEM_POLYCOMPRESSEDBYTES_DU == 320: byte m is        *)
(* written by iteration j = m / 5 from t[0 .. 3]                           *)
poly_compress_du_320(x) ==
  [m \in 0 .. 319 |->
     LET j == m \div 5
         t(k) == ToUint16(scalar_compress_d10(ToUint16(x[4 * j + k])))
     IN  ToUint8(
         CASE m % 5 = 0 -> BitAnd(Shr(t(0), 0), 255)
           [] m % 5 = 1 -> BitOr(Shr(t(0), 8), BitAnd(Shl(t(1), 2), 255))
           [] m % 5 = 2 -> BitOr(Shr(t(1), 6), BitAnd(Shl(t(2), 4), 255))
           [] m % 5 = 3 -> BitOr(Shr(t(2), 4), BitAnd(Shl(t(3), 6), 255))
           [] m % 5 = 4 -> Shr(t(3), 2))]

(* Faulty variant of poly_compress_du: the 320-byte layout is used for     *)
(* every parameter set                                                     *)
poly_compress_du_always_320(k, x) == poly_compress_du_320(x)

(* The #if on MLKEM_POLYCOMPRESSEDBYTES_DU *)
poly_compress_du(k, x) ==
  IF MLKEM_POLYCOMPRESSEDBYTES_DU(k) = 352
  THEN poly_compress_du_352(x)
  ELSE poly_compress_du_320(x)

(* poly_decompress_du, 352 bytes: coefficient c is written by iteration    *)
(* j = c / 8 from base = &a[11 j]                                          *)
poly_decompress_du_352(y) ==
  [c \in Coeffs |->
     LET j == c \div 8
         base(k) == y[11 * j + k]
         t == CASE c % 8 = 0 ->
                     BitOr(Shr(base(0), 0), Shl(base(1), 8))
                [] c % 8 = 1 ->
                     BitOr(Shr(base(1), 3), Shl(base(2), 5))
                [] c % 8 = 2 ->
                     BitOr(BitOr(Shr(base(2), 6), Shl(base(3), 2)),
                           Shl(base(4), 10))
                [] c % 8 = 3 ->
                     BitOr(Shr(base(4), 1), Shl(base(5), 7))
                [] c % 8 = 4 ->
                     BitOr(Shr(base(5), 4), Shl(base(6), 4))
                [] c % 8 = 5 ->
                     BitOr(BitOr(Shr(base(6), 7), Shl(base(7), 1)),
                           Shl(base(8), 9))
                [] c % 8 = 6 ->
                     BitOr(Shr(base(8), 2), Shl(base(9), 6))
                [] c % 8 = 7 ->
                     BitOr(Shr(base(9), 5), Shl(base(10), 3))
     IN  ToInt16(scalar_decompress_d11(ToUint16(BitAnd(2047, t))))]

(* poly_decompress_du, 320 bytes: coefficient c is written by iteration    *)
(* j = c / 4 from base = &a[5 j]                                           *)
poly_decompress_du_320(y) ==
  [c \in Coeffs |->
     LET j == c \div 4
         base(k) == y[5 * j + k]
         t == CASE c % 4 = 0 ->
                     BitOr(Shr(base(0), 0), Shl(base(1), 8))
                [] c % 4 = 1 ->
                     BitOr(Shr(base(1), 2), Shl(base(2), 6))
                [] c % 4 = 2 ->
                     BitOr(Shr(base(2), 4), Shl(base(3), 4))
                [] c % 4 = 3 ->
                     BitOr(Shr(base(3), 6), Shl(base(4), 2))
     IN  ToInt16(scalar_decompress_d10(ToUint16(BitAnd(1023, t))))]

(* Faulty variant of poly_decompress_du: the 320-byte layout is used for   *)
(* every parameter set                                                     *)
poly_decompress_du_always_320(k, y) == poly_decompress_du_320(y)

poly_decompress_du(k, y) ==
  IF MLKEM_POLYCOMPRESSEDBYTES_DU(k) = 352
  THEN poly_decompress_du_352(y)
  ELSE poly_decompress_du_320(y)

(* poly_compress_dv, MLKEM_POLYCOMPRESSEDBYTES_DV == 128: byte m is        *)
(* written by iteration i = m / 4 from the uint8_t values t[0 .. 7]        *)
poly_compress_dv_128(x) ==
  [m \in 0 .. 127 |->
     LET i == m \div 4
         t(j) == ToUint8(scalar_compress_d4(ToUint16(x[8 * i + j])))
     IN  ToUint8(BitOr(t(2 * (m % 4)), Shl(t(2 * (m % 4) + 1), 4)))]

(* poly_compress_dv, MLKEM_POLYCOMPRESSEDBYTES_DV == 160: byte m is        *)
(* written by iteration i = m / 5 from the uint8_t values t[0 .. 7]        *)
poly_compress_dv_160(x) ==
  [m \in 0 .. 159 |->
     LET i == m \div 5
         t(j) == ToUint8(scalar_compress_d5(ToUint16(x[8 * i + j])))
     IN  ToUint8(BitAnd(255,
         CASE m % 5 = 0 -> BitOr(Shr(t(0), 0), Shl(t(1), 5))
           [] m % 5 = 1 -> BitOr(BitOr(Shr(t(1), 3), Shl(t(2), 2)),
                                 Shl(t(3), 7))
           [] m % 5 = 2 -> BitOr(Shr(t(3), 1), Shl(t(4), 4))
           [] m % 5 = 3 -> BitOr(BitOr(Shr(t(4), 4), Shl(t(5), 1)),
                                 Shl(t(6), 6))
           [] m % 5 = 4 -> BitOr(Shr(t(6), 2), Shl(t(7), 3))))]

poly_compress_dv(k, x) ==
  IF MLKEM_POLYCOMPRESSEDBYTES_DV(k) = 128
  THEN poly_compress_dv_128(x)
  ELSE poly_compress_dv_160(x)

(* Faulty variant of poly_decompress_dv_128: coefficient 2 i is taken from  *)
(* the high nibble and coefficient 2 i + 1 from the low nibble             *)
poly_decompress_dv_128_swapped(y) ==
  [c \in Coeffs |->
     LET i == c \div 2
     IN  ToInt16(scalar_decompress_d4(
           BitAnd(Shr(y[i], IF c % 2 = 0 THEN 4 ELSE 0), 15)))]

(* poly_decompress_dv, 128 bytes: coefficients 2 i and 2 i + 1 come from   *)
(* the low and the high nibble of a[i]                                     *)
poly_decompress_dv_128(y) ==
  [c \in Coeffs |->
     LET i == c \div 2
     IN  ToInt16(scalar_decompress_d4(
           BitAnd(Shr(y[i], IF c % 2 = 0 THEN 0 ELSE 4), 15)))]

(* poly_decompress_dv, 160 bytes: coefficient c is written by iteration    *)
(* i = c / 8 from a[offset .. offset + 4], offset = 5 i                    *)
poly_decompress_dv_160(y) ==
  [c \in Coeffs |->
     LET i == c \div 8
         offset == i * 5
         t == CASE c % 8 = 0 -> Shr(y[offset + 0], 0)
                [] c % 8 = 1 ->
                     BitOr(Shr(y[offset + 0], 5), Shl(y[offset + 1], 3))
                [] c % 8 = 2 -> Shr(y[offset + 1], 2)
                [] c % 8 = 3 ->
                     BitOr(Shr(y[offset + 1], 7), Shl(y[offset + 2], 1))
                [] c % 8 = 4 ->
                     BitOr(Shr(y[offset + 2], 4), Shl(y[offset + 3], 4))
                [] c % 8 = 5 -> Shr(y[offset + 3], 1)
                [] c % 8 = 6 ->
                     BitOr(Shr(y[offset + 3], 6), Shl(y[offset + 4], 2))
                [] c % 8 = 7 -> Shr(y[offset + 4], 3)
     IN  ToInt16(scalar_decompress_d5(ToUint8(BitAnd(31, t))))]

poly_decompress_dv(k, y) ==
  IF MLKEM_POLYCOMPRESSEDBYTES_DV(k) = 128
  THEN poly_decompress_dv_128(y)
  ELSE poly_decompress_dv_160(y)

(***************************************************************************)
(* Message codec (poly.c, poly.h, verify.h)                                *)
(***************************************************************************)
HALF_Q == (MLKEM_Q + 1) \div 2

(* The identity at run time *)
value_barrier_u8(x) == x

(* ct_sel_int16(x, y, cond): x if cond is nonzero, y otherwise, computed   *)
(* without a branch                                                        *)
ct_sel_int16(x, y, cond) == IF cond # 0 THEN x ELSE y

(* Faulty variant of poly_frommsg: the mask is not shifted, so every        *)
(* coefficient of a group of eight follows bit 0 of the byte               *)
poly_frommsg_unshifted_mask(m) ==
  [c \in Coeffs |->
     LET i == c \div 8
         mask == value_barrier_u8(1)
     IN  ct_sel_int16(HALF_Q, 0, BitAnd(m[i], mask))]

(* Faulty variant of poly_frommsg: a set bit selects q / 2 rounded down *)
poly_frommsg_half_rounded_down(m) ==
  [c \in Coeffs |->
     LET i == c \div 8
         j == c % 8
         mask == value_barrier_u8(ToUint8(Shl(1, j)))
     IN  ct_sel_int16(MLKEM_Q \div 2, 0, BitAnd(m[i], mask))]

poly_frommsg(m) ==
  [c \in Coeffs |->
     LET i == c \div 8
         j == c % 8
         mask == value_barrier_u8(ToUint8(Shl(1, j)))
     IN  ct_sel_int16(HALF_Q, 0, BitAnd(m[i], mask))]

(* Faulty variant of poly_frommsg_steps: the coefficient is chosen by a    *)
(* conditional branch on the message bit, and the branch taken is part of  *)
(* the control flow                                                        *)
poly_frommsg_steps_branching(m) ==
  [n \in 1 .. MLKEM_N |->
     LET i == (n - 1) \div 8
         j == (n - 1) % 8
     IN  [read |-> i, write |-> 8 * i + j,
          flow |-> IF BitAnd(m[i], Shl(1, j)) # 0
                   THEN "branch_taken" ELSE "branch_not_taken"]]

(* The steps poly_frommsg executes on message m, in order: iteration       *)
(* (i, j) of the two counted loops reads msg[i], writes coefficient        *)
(* 8 i + j, and its only message-dependent operation is the call of        *)
(* ct_sel_int16                                                            *)
poly_frommsg_steps(m) ==
  [n \in 1 .. MLKEM_N |->
     LET i == (n - 1) \div 8
         j == (n - 1) % 8
     IN  [read |-> i, write |-> 8 * i + j, flow |-> "ct_sel_int16"]]

(* Faulty variant of poly_tomsg: bit j of a byte is taken from coefficient *)
(* 8 i + 7 - j                                                             *)
poly_tomsg_msb_first(x) ==
  [i \in MsgIdx |->
     LET t(j) == scalar_compress_d1(ToUint16(x[8 * i + 7 - j]))
     IN  ToUint8(t(0) + 2 * t(1) + 4 * t(2) + 8 * t(3)
                 + 16 * t(4) + 32 * t(5) + 64 * t(6) + 128 * t(7))]

(* poly_tomsg: msg[i] = 0, then msg[i] |= t << j for j = 0 .. 7 *)
poly_tomsg(x) ==
  [i \in MsgIdx |->
     LET t(j) == scalar_compress_d1(ToUint16(x[8 * i + j]))
         or(j, acc) == ToUint8(BitOr(acc, Shl(t(j), j)))
     IN  or(7, or(6, or(5, or(4, or(3, or(2, or(1, or(0, 0))))))))]

(***************************************************************************)
(* SpecCodec: poly_compress_du/dv, poly_decompress_du/dv, poly_tomsg,      *)
(* poly_frommsg, for each of the three parameter sets                      *)
(***************************************************************************)
(* Canonical polynomials s * i + o mod q *)
StridePoly(s, o) == [i \in Coeffs |-> (s * i + o) % MLKEM_Q]

(* Polynomials with every coefficient in {0, HALF_Q} *)
MsgPolyInputs ==
  {ConstPoly(0), ConstPoly(HALF_Q), AltPoly(0, HALF_Q), AltPoly(HALF_Q, 0)}
  \cup {[i \in Coeffs |-> IF ((i * i) \div s + i) % 3 = 0 THEN HALF_Q ELSE 0] :
          s \in {1, 7}}

(* The values on both sides of q/4, q/2 and 3q/4, and the two ends of      *)
(* [0, q)                                                                  *)
BoundaryPoly ==
  [i \in Coeffs |->
     <<1664, 1665, 832, 833, 2496, 2497, 0, MLKEM_Q - 1>>[(i % 8) + 1]]

(* With stride 1 the offsets 0, 256, ... make every value of [0, q) occur *)
CodecInputs ==
  {StridePoly(s, MLKEM_N * n) :
     s \in {1, 209}, n \in 0 .. (MLKEM_Q \div MLKEM_N)}
  \cup CanonInputs
  \cup MsgPolyInputs
  \cup {BoundaryPoly}

(* The value of the w-bit field that starts at bit n of the byte string y, *)
(* bits taken least significant first within a byte, bytes in increasing   *)
(* order                                                                   *)
RECURSIVE StreamBits(_, _, _)
StreamBits(y, n, w) ==
  IF w = 0 THEN 0
  ELSE Bit(y[n \div 8], n % 8) + 2 * StreamBits(y, n + 1, w - 1)

(* Bits n .. n + w - 1 of the concatenation of the d-bit values f[0],      *)
(* f[1], ..., as a number                                                  *)
RECURSIVE PackBits(_, _, _, _)
PackBits(f, d, n, w) ==
  IF w = 0 THEN 0
  ELSE Bit(f[n \div d], n % d) + 2 * PackBits(f, d, n + 1, w - 1)

(* Byte strings of 32 d bytes received from elsewhere: the d-bit fields    *)
(* of FieldBytes(d, s, n) are s * c + 256 n mod 2^d; with s = 1 every      *)
(* value of a d-bit field occurs                                           *)
FieldBytes(d, s, n) ==
  LET f == [c \in Coeffs |-> (s * c + MLKEM_N * n) % (2 ^ d)]
  IN  [m \in 0 .. (32 * d - 1) |-> PackBits(f, d, 8 * m, 8)]

RawCodecBytes(d) ==
  {FieldBytes(d, s, n) :
     s \in {1, 5}, n \in 0 .. (IF 2 ^ d > MLKEM_N
                               THEN (2 ^ d) \div MLKEM_N - 1 ELSE 0)}
  \cup {[m \in 0 .. (32 * d - 1) |-> 255]}

(* 32-byte messages: every byte value occurs, in every position parity *)
MsgInputs ==
  {[i \in MsgIdx |-> IF i = 0 THEN 255 ELSE 0],
   [i \in MsgIdx |-> 0], [i \in MsgIdx |-> 255]}
  \cup {[i \in MsgIdx |-> (s * i + 32 * n) % 256] :
          s \in {1, 37}, n \in 0 .. 7}

InitCodec ==
  /\ mlkem_k \in ParameterSets
  /\ \/ /\ pc = "co_start"
        /\ r \in CodecInputs
        /\ bytes = NoBytes
     \/ /\ pc = "co_raw_du"
        /\ r = ZeroPoly
        /\ bytes \in RawCodecBytes(BitsDU(mlkem_k))
     \/ /\ pc = "co_raw_dv"
        /\ r = ZeroPoly
        /\ bytes \in RawCodecBytes(BitsDV(mlkem_k))
     \/ /\ pc = "co_raw_msg"
        /\ r = ZeroPoly
        /\ bytes \in MsgInputs
  /\ p = r
  /\ ntt_of_p = FALSE
  /\ a = ZeroPoly
  /\ b = ZeroPoly
  /\ b_cache = ZeroCache
  /\ msg = NoMsg
  /\ seed = NoSeed
  /\ nonce = NoNonces
  /\ noise = NoNoise
  /\ trace = NoTrace

(* poly_compress_du(bytes, &r) *)
Do_poly_compress_du ==
  /\ pc = "co_start"
  /\ bytes' = poly_compress_du(mlkem_k, r)
  /\ pc' = "compressed_du"
  /\ UNCHANGED <<r, p, ntt_of_p, a, b, b_cache, build_vars>>

(* poly_decompress_du(&a, bytes), on the output of poly_compress_du or on  *)
(* bytes received from elsewhere                                           *)
Do_poly_decompress_du ==
  /\ pc \in {"compressed_du", "co_raw_du"}
  /\ a' = poly_decompress_du(mlkem_k, bytes)
  /\ pc' = IF pc = "compressed_du"
           THEN "decompressed_du" ELSE "decompressed_raw_du"
  /\ UNCHANGED <<r, p, ntt_of_p, b, b_cache, bytes, build_vars>>

(* poly_compress_dv(bytes, &r); POLY_UBOUND(a, MLKEM_Q) *)
Do_poly_compress_dv ==
  /\ pc = "co_start"
  /\ array_bound(r, 0, MLKEM_Q - 1)
  /\ bytes' = poly_compress_dv(mlkem_k, r)
  /\ pc' = "compressed_dv"
  /\ UNCHANGED <<r, p, ntt_of_p, a, b, b_cache, build_vars>>

(* poly_decompress_dv(&a, bytes) *)
Do_poly_decompress_dv ==
  /\ pc \in {"compressed_dv", "co_raw_dv"}
  /\ a' = poly_decompress_dv(mlkem_k, bytes)
  /\ pc' = IF pc = "compressed_dv"
           THEN "decompressed_dv" ELSE "decompressed_raw_dv"
  /\ UNCHANGED <<r, p, ntt_of_p, b, b_cache, bytes, build_vars>>

(* poly_tomsg(msg, &r), or poly_tomsg(msg, &a) on the output of            *)
(* poly_frommsg; POLY_UBOUND(a, MLKEM_Q)                                   *)
Do_poly_tomsg ==
  /\ pc \in {"co_start", "frommsg"}
  /\ array_bound(IF pc = "co_start" THEN r ELSE a, 0, MLKEM_Q - 1)
  /\ msg' = poly_tomsg(IF pc = "co_start" THEN r ELSE a)
  /\ pc' = IF pc = "co_start" THEN "tomsg" ELSE "frommsg_tomsg"
  /\ UNCHANGED <<r, p, ntt_of_p, a, b, b_cache, bytes,
                 mlkem_k, seed, nonce, noise, trace>>

(* poly_frommsg(&a, msg) on the output of poly_tomsg, or                   *)
(* poly_frommsg(&a, bytes) on a message received from elsewhere; trace     *)
(* records the steps of the call                                           *)
Do_poly_frommsg ==
  /\ pc \in {"tomsg", "co_raw_msg"}
  /\ a' = poly_frommsg(IF pc = "tomsg" THEN msg ELSE bytes)
  /\ trace' = poly_frommsg_steps(IF pc = "tomsg" THEN msg ELSE bytes)
  /\ pc' = IF pc = "tomsg" THEN "tomsg_frommsg" ELSE "frommsg"
  /\ UNCHANGED <<r, p, ntt_of_p, b, b_cache, bytes,
                 mlkem_k, msg, seed, nonce, noise>>

(* poly_compress_du(msg, &a) on the output of poly_decompress_du for bytes *)
(* received from elsewhere; msg is a second buffer and bytes is kept       *)
Do_poly_recompress_du ==
  /\ pc = "decompressed_raw_du"
  /\ msg' = poly_compress_du(mlkem_k, a)
  /\ pc' = "recompressed_du"
  /\ UNCHANGED <<r, p, ntt_of_p, a, b, b_cache, bytes,
                 mlkem_k, seed, nonce, noise, trace>>

(* poly_compress_dv(msg, &a) on the output of poly_decompress_dv for bytes *)
(* received from elsewhere; POLY_UBOUND(a, MLKEM_Q)                        *)
Do_poly_recompress_dv ==
  /\ pc = "decompressed_raw_dv"
  /\ array_bound(a, 0, MLKEM_Q - 1)
  /\ msg' = poly_compress_dv(mlkem_k, a)
  /\ pc' = "recompressed_dv"
  /\ UNCHANGED <<r, p, ntt_of_p, a, b, b_cache, bytes,
                 mlkem_k, seed, nonce, noise, trace>>

NextCodec ==
  \/ Do_poly_compress_du
  \/ Do_poly_decompress_du
  \/ Do_poly_compress_dv
  \/ Do_poly_decompress_dv
  \/ Do_poly_tomsg
  \/ Do_poly_frommsg
  \/ Do_poly_recompress_du
  \/ Do_poly_recompress_dv

SpecCodec == InitCodec /\ [][NextCodec]_vars

(* C12: for canonical input, poly_compress_du writes exactly 320 bytes     *)
(* (d = 10) or 352 bytes (d = 11) and poly_compress_dv exactly 128 bytes   *)
(* (d = 4) or 160 bytes (d = 5), and the output is the concatenation,      *)
(* least significant bit first, of the d-bit values t[k] = compress_d of   *)
(* coefficient k: bit (m mod 8) of byte (m div 8) is bit (m mod d) of      *)
(* t[m div d], for every m in 0 .. 256 d - 1.                              *)
C12_CompressLayout ==
  LET du == IF mlkem_k = 4 THEN 11 ELSE 10
      dv == IF mlkem_k = 4 THEN 5 ELSE 4
      packed(d) ==
        /\ DOMAIN bytes = 0 .. (32 * d - 1)
        /\ {m \in 0 .. (256 * d - 1) :
              Bit(bytes[m \div 8], m % 8)
                # Bit(((r[m \div d] * 2 ^ d + 1664) \div 3329) % (2 ^ d),
                      m % d)} = {}
  IN  /\ pc = "compressed_du" =>
        /\ packed(du)
        /\ DOMAIN bytes = 0 .. (IF mlkem_k = 4 THEN 351 ELSE 319)
      /\ pc = "compressed_dv" =>
        /\ packed(dv)
        /\ DOMAIN bytes = 0 .. (IF mlkem_k = 4 THEN 159 ELSE 127)

(* In the build with d_u = 11, d_v = 5 a polynomial has been compressed    *)
(* whose compressed values include the largest 11-bit (resp. 5-bit) value  *)
(* and values that straddle byte boundaries                                *)
C12_Witness ==
  /\ mlkem_k = 4
  /\ pc \in {"compressed_du", "compressed_dv"}
  /\ LET d == IF pc = "compressed_du" THEN 11 ELSE 5
     IN  /\ \E k \in Coeffs : scalar_compress(d, r[k]) = 2 ^ d - 1
         /\ \E k \in Coeffs : scalar_compress(d, r[k]) = 0 /\ r[k] # 0
         /\ \E m \in DOMAIN bytes : bytes[m] \notin {0, 255}

(* C13: for every input byte string, with no restriction on the byte       *)
(* values, coefficient k produced by poly_decompress_du (d = 10 or 11)     *)
(* and poly_decompress_dv (d = 4 or 5) is (y_k * q + 2^(d-1)) >> d, where  *)
(* y_k is the k-th d-bit field of the input read least significant bit     *)
(* first, and every output coefficient lies in [0, q - 1].                 *)
C13_DecompressValue ==
  LET du == IF mlkem_k = 4 THEN 11 ELSE 10
      dv == IF mlkem_k = 4 THEN 5 ELSE 4
      unpacked(d) ==
        {k \in Coeffs :
           \/ a[k] # (StreamBits(bytes, d * k, d) * 3329 + 2 ^ (d - 1))
                       \div (2 ^ d)
           \/ a[k] < 0
           \/ a[k] > 3328} = {}
  IN  /\ pc \in {"decompressed_du", "decompressed_raw_du"} => unpacked(du)
      /\ pc \in {"decompressed_dv", "decompressed_raw_dv"} => unpacked(dv)

(* In the build with d_u = 11, d_v = 5, bytes that no compression produced *)
(* (all fields at their maximum) have been decompressed, and the largest   *)
(* field value gave a coefficient just below q                             *)
C13_Witness ==
  /\ mlkem_k = 4
  /\ pc \in {"decompressed_raw_du", "decompressed_raw_dv"}
  /\ \A m \in DOMAIN bytes : bytes[m] = 255
  /\ \E k \in Coeffs : a[k] > 3200 /\ a[k] < MLKEM_Q

(* The distance between u and v modulo q, the smaller way round *)
CentredDist(u, v) ==
  LET t == (u - v) % MLKEM_Q
  IN  IF t > MLKEM_Q - t THEN MLKEM_Q - t ELSE t

(* round(q / 2^(d+1)), halves rounded up *)
CompressError(d) == (2 * MLKEM_Q + 2 ^ (d + 1)) \div (2 * 2 ^ (d + 1))

(* C14: for d in {1, 4, 5, 10, 11} and every x in [0, q), the compressed   *)
(* value of x is ((x * 2^d + q/2) / q) mod 2^d, and decompressing it gives *)
(* a value whose centred distance from x modulo q is at most               *)
(* round(q / 2^(d+1)).  d = 10, 11 are exercised by poly_compress_du and   *)
(* poly_decompress_du, d = 4, 5 by poly_compress_dv and                    *)
(* poly_decompress_dv, d = 1 by poly_tomsg and poly_frommsg.               *)
C14_CompressRoundTrip ==
  LET close(y, d) ==
        {i \in Coeffs :
           \/ r[i] < 0
           \/ r[i] >= MLKEM_Q
           \/ StreamBits(y, d * i, d)
                # ((r[i] * 2 ^ d + 1664) \div 3329) % (2 ^ d)
           \/ CentredDist(a[i], r[i]) > CompressError(d)} = {}
  IN  /\ pc = "decompressed_du" => close(bytes, IF mlkem_k = 4 THEN 11 ELSE 10)
      /\ pc = "decompressed_dv" => close(bytes, IF mlkem_k = 4 THEN 5 ELSE 4)
      /\ pc = "tomsg_frommsg" => close(msg, 1)
      /\ CompressError(1) = 832
      /\ CompressError(4) = 104
      /\ CompressError(5) = 52
      /\ CompressError(10) = 2
      /\ CompressError(11) = 1

(* A round trip with d = 4 in which one coefficient moved by exactly       *)
(* round(q / 32) = 104 and a coefficient near q was mapped to 0            *)
C14_Witness ==
  /\ pc = "decompressed_dv"
  /\ mlkem_k = 3
  /\ \E i \in Coeffs : CentredDist(a[i], r[i]) = 104
  /\ \E i \in Coeffs : r[i] > 3000 /\ a[i] = 0

(* C15, as stated: compress_d1(1664) = 0, compress_d1(1665) = 1,           *)
(* decompress_d1(0) = 0, decompress_d1(1) = 1665.  The bit poly_tomsg      *)
(* writes for coefficient i is compress_d1 of it; the coefficient          *)
(* poly_frommsg writes for a message bit is decompress_d1 of it.           *)
C15_HalfQBoundaryAsStated ==
  /\ pc \in {"tomsg", "tomsg_frommsg"} =>
       \A i \in Coeffs :
         /\ r[i] = 1664 => Bit(msg[i \div 8], i % 8) = 0
         /\ r[i] = 1665 => Bit(msg[i \div 8], i % 8) = 1
  /\ pc = "tomsg_frommsg" =>
       \A i \in Coeffs :
         /\ Bit(msg[i \div 8], i % 8) = 0 => a[i] = 0
         /\ Bit(msg[i \div 8], i % 8) = 1 => a[i] = 1665

(* C15, amended: compress_d1(1664) = 1 and compress_d1(1665) = 1; the      *)
(* rounding boundaries of compress_d1 are compress_d1(832) = 0,            *)
(* compress_d1(833) = 1, compress_d1(2496) = 1, compress_d1(2497) = 0;     *)
(* decompress_d1(0) = 0 and decompress_d1(1) = 1665.                       *)
C15_HalfQBoundary ==
  /\ pc \in {"tomsg", "tomsg_frommsg"} =>
       \A i \in Coeffs :
         /\ r[i] \in {1664, 1665, 833, 2496} => Bit(msg[i \div 8], i % 8) = 1
         /\ r[i] \in {832, 2497} => Bit(msg[i \div 8], i % 8) = 0
  /\ pc = "tomsg_frommsg" =>
       \A i \in Coeffs :
         /\ Bit(msg[i \div 8], i % 8) = 0 => a[i] = 0
         /\ Bit(msg[i \div 8], i % 8) = 1 => a[i] = 1665

(* poly_tomsg and then poly_frommsg have run on a polynomial that holds    *)
(* 1664, 1665 and the values around q/4 and 3q/4, and both message bit     *)
(* values were decoded                                                     *)
C15_Witness ==
  /\ pc = "tomsg_frommsg"
  /\ \A v \in {1664, 1665, 832, 833, 2496, 2497} : \E i \in Coeffs : r[i] = v
  /\ \E i \in Coeffs : a[i] = 0
  /\ \E i \in Coeffs : a[i] = 1665

(* C16: poly_frommsg sets coefficient 8 i + j to 1665 if bit j of msg[i]   *)
(* is 1 and to 0 otherwise; on msg = [0xFF, 0x00, ..., 0x00] coefficients  *)
(* 0 .. 7 are 1665 and all others are 0.                                   *)
C16_FrommsgValue ==
  pc \in {"frommsg", "tomsg_frommsg"} =>
    LET m == IF pc = "frommsg" THEN bytes ELSE msg
    IN  /\ \A i \in 0 .. 31 : \A j \in 0 .. 7 :
             a[8 * i + j] = IF (m[i] \div 2 ^ j) % 2 = 1 THEN 1665 ELSE 0
        /\ (m[0] = 255 /\ \A i \in 1 .. 31 : m[i] = 0) =>
             \A c \in Coeffs : a[c] = IF c <= 7 THEN 1665 ELSE 0

(* poly_frommsg has run on the message [0xFF, 0x00, ..., 0x00] *)
C16_Witness ==
  /\ pc = "frommsg"
  /\ bytes[0] = 255
  /\ \A i \in 1 .. 31 : bytes[i] = 0
  /\ a[7] = 1665
  /\ a[8] = 0

(* C17: poly_frommsg(poly_tomsg(p)) = p for every polynomial p whose       *)
(* coefficients are all in {0, HALF_Q}, and poly_tomsg(poly_frommsg(m)) =  *)
(* m for every 32-byte message m.                                          *)
C17_MsgRoundTrip ==
  /\ (pc = "tomsg_frommsg" /\ \A i \in Coeffs : r[i] \in {0, 1665}) => a = r
  /\ pc = "frommsg_tomsg" =>
       /\ msg = bytes
       /\ \A i \in Coeffs : a[i] \in {0, 1665}
       /\ poly_frommsg(msg) = a

(* poly_frommsg and then poly_tomsg have run on a message with bytes other *)
(* than 0x00 and 0xFF; the polynomial in between has coefficients 0 and    *)
(* HALF_Q and is itself returned by poly_frommsg of its message            *)
C17_Witness ==
  /\ pc = "frommsg_tomsg"
  /\ \E i \in MsgIdx : bytes[i] \notin {0, 255}
  /\ \E i \in Coeffs : a[i] = 0
  /\ \E i \in Coeffs : a[i] = HALF_Q

RECURSIVE KeySum(_, _)
KeySum(key, i) ==
  IF i < 0 THEN 0 ELSE (i + 1) * key[i] + KeySum(key, i - 1)

(* The pseudorandom function: len bytes that are a function of the         *)
(* (MLKEM_SYMBYTES + 1)-byte key alone; a shorter output is a prefix of a  *)
(* longer one.  The byte values stand for those of SHAKE256.               *)
PRF(key, len) ==
  LET h == (KeySum(key, MLKEM_SYMBYTES) % 8191) + 1
  IN  [m \in 0 .. (len - 1) |-> ((h * (37 * m + 11)) \div 5 + m * m) % 256]

prf_eta1(k, key) == PRF(key, (MLKEM_ETA1(k) * MLKEM_N) \div 4)
prf_eta2(key) == PRF(key, (MLKEM_ETA2 * MLKEM_N) \div 4)

(* The 4-way PRF: output i is the PRF of key i *)
prf_eta1_x4(k, key0, key1, key2, key3) ==
  <<prf_eta1(k, key0), prf_eta1(k, key1), prf_eta1(k, key2), prf_eta1(k, key3)>>

(* The number of set bits among bits n .. n + w - 1 of the byte string y,  *)
(* least significant bit first within a byte                               *)
RECURSIVE SumStreamBits(_, _, _)
SumStreamBits(y, n, w) ==
  IF w = 0 THEN 0
  ELSE Bit(y[n \div 8], n % 8) + SumStreamBits(y, n + 1, w - 1)

(* CBD_eta: coefficient c is A - B, A the sum of the first eta and B the   *)
(* sum of the second eta of the 2 eta bits that start at bit 2 eta c       *)
poly_cbd(eta, buf) ==
  [c \in Coeffs |->
     SumStreamBits(buf, 2 * eta * c, eta)
       - SumStreamBits(buf, 2 * eta * c + eta, eta)]

poly_cbd_eta1(k, buf) == poly_cbd(MLKEM_ETA1(k), buf)
poly_cbd_eta2(buf) == poly_cbd(MLKEM_ETA2, buf)

(* extkey = seed || nonce *)
extkey(sd, n) ==
  [i \in 0 .. MLKEM_SYMBYTES |-> IF i < MLKEM_SYMBYTES THEN sd[i] ELSE n]

poly_getnoise_eta1_4x(k, sd, nonce0, nonce1, nonce2, nonce3) ==
  LET buf == prf_eta1_x4(k, extkey(sd, nonce0), extkey(sd, nonce1),
                         extkey(sd, nonce2), extkey(sd, nonce3))
  IN  <<poly_cbd_eta1(k, buf[1]), poly_cbd_eta1(k, buf[2]),
        poly_cbd_eta1(k, buf[3]), poly_cbd_eta1(k, buf[4])>>

(* Faulty variant of poly_getnoise_eta2: the eta1 functions are called *)
poly_getnoise_eta2_as_eta1(k, sd, n) ==
  poly_cbd_eta1(k, prf_eta1(k, extkey(sd, n)))

poly_getnoise_eta2(k, sd, n) ==
  poly_cbd_eta2(prf_eta2(extkey(sd, n)))

(* Faulty variant of poly_getnoise_eta1122_4x: extkey[2] and extkey[3]     *)
(* receive each other's nonce                                              *)
poly_getnoise_eta1122_4x_swapped(k, sd, nonce0, nonce1, nonce2, nonce3) ==
  LET buf1 == <<prf_eta1(k, extkey(sd, nonce0)), prf_eta1(k, extkey(sd, nonce1))>>
      buf2 == <<prf_eta2(extkey(sd, nonce3)), prf_eta2(extkey(sd, nonce2))>>
  IN  <<poly_cbd_eta1(k, buf1[1]), poly_cbd_eta1(k, buf1[2]),
        poly_cbd_eta2(buf2[1]), poly_cbd_eta2(buf2[2])>>

(* buf1 holds two buffers of MLKEM_ETA1 * MLKEM_N / 4 bytes, buf2 two of   *)
(* MLKEM_ETA2 * MLKEM_N / 4 bytes; with MLKEM_ETA1 == MLKEM_ETA2 the four  *)
(* are filled by one call of the 4-way PRF, otherwise by four scalar calls *)
poly_getnoise_eta1122_4x(k, sd, nonce0, nonce1, nonce2, nonce3) ==
  LET x4 == prf_eta1_x4(k, extkey(sd, nonce0), extkey(sd, nonce1),
                        extkey(sd, nonce2), extkey(sd, nonce3))
      buf1 == IF MLKEM_ETA1(k) = MLKEM_ETA2
              THEN <<x4[1], x4[2]>>
              ELSE <<prf_eta1(k, extkey(sd, nonce0)),
                     prf_eta1(k, extkey(sd, nonce1))>>
      buf2 == IF MLKEM_ETA1(k) = MLKEM_ETA2
              THEN <<x4[3], x4[4]>>
              ELSE <<prf_eta2(extkey(sd, nonce2)),
                     prf_eta2(extkey(sd, nonce3))>>
  IN  <<poly_cbd_eta1(k, buf1[1]), poly_cbd_eta1(k, buf1[2]),
        poly_cbd_eta2(buf2[1]), poly_cbd_eta2(buf2[2])>>

(***************************************************************************)
(* SpecNoise: poly_getnoise_eta1_4x, poly_getnoise_eta1122_4x,             *)
(* poly_getnoise_eta2, for each of the three parameter sets                *)
(***************************************************************************)
SeedInputs ==
  {[i \in 0 .. (MLKEM_SYMBYTES - 1) |-> (s * i + o) % 256] :
     s \in {0, 1, 77}, o \in {0, 255}}

(* Nonces are uint8_t values; tuples that share some of their entries *)
NonceInputs ==
  {<<0, 1, 2, 3>>, <<4, 5, 6, 7>>, <<0, 5, 2, 7>>, <<3, 2, 1, 0>>,
   <<255, 254, 253, 252>>, <<9, 9, 9, 9>>}

InitNoise ==
  /\ pc = "no_start"
  /\ mlkem_k \in ParameterSets
  /\ seed \in SeedInputs
  /\ nonce \in NonceInputs
  /\ noise = NoNoise
  /\ r = ZeroPoly
  /\ p = ZeroPoly
  /\ ntt_of_p = FALSE
  /\ a = ZeroPoly
  /\ b = ZeroPoly
  /\ b_cache = ZeroCache
  /\ bytes = NoBytes
  /\ msg = NoMsg
  /\ trace = NoTrace

(* poly_getnoise_eta1_4x(&noise[0], .., &noise[3], seed, nonce0, .., nonce3) *)
Do_poly_getnoise_eta1_4x ==
  /\ pc = "no_start"
  /\ noise' = poly_getnoise_eta1_4x(mlkem_k, seed,
                                    nonce[1], nonce[2], nonce[3], nonce[4])
  /\ pc' = "eta1_4x"
  /\ UNCHANGED <<r, p, ntt_of_p, a, b, b_cache, bytes,
                 mlkem_k, msg, seed, nonce, trace>>

(* poly_getnoise_eta1122_4x(&noise[0], .., &noise[3], seed, nonce0, ..,    *)
(* nonce3)                                                                 *)
Do_poly_getnoise_eta1122_4x ==
  /\ pc = "no_start"
  /\ noise' = poly_getnoise_eta1122_4x(mlkem_k, seed,
                                       nonce[1], nonce[2], nonce[3], nonce[4])
  /\ pc' = "eta1122_4x"
  /\ UNCHANGED <<r, p, ntt_of_p, a, b, b_cache, bytes,
                 mlkem_k, msg, seed, nonce, trace>>

(* poly_getnoise_eta2(&r, seed, nonce[n]) for one of the four nonces,      *)
(* after a batched call; trace records which nonce was passed              *)
Do_poly_getnoise_eta2 ==
  /\ pc \in {"eta1_4x", "eta1122_4x"}
  /\ \E n \in 1 .. 4 :
       /\ r' = poly_getnoise_eta2(mlkem_k, seed, nonce[n])
       /\ trace' = <<n>>
  /\ pc' = IF pc = "eta1_4x" THEN "eta1_4x_eta2" ELSE "eta1122_4x_eta2"
  /\ UNCHANGED <<p, ntt_of_p, a, b, b_cache, bytes,
                 mlkem_k, msg, seed, nonce, noise>>

NextNoise ==
  \/ Do_poly_getnoise_eta1_4x
  \/ Do_poly_getnoise_eta1122_4x
  \/ Do_poly_getnoise_eta2

SpecNoise == InitNoise /\ [][NextNoise]_vars

(* C19: with eta1 = 3 for K = 2 and eta1 = 2 for K = 3, 4, and eta2 = 2:   *)
(* every coefficient of the four outputs of poly_getnoise_eta1_4x and of   *)
(* r0, r1 of poly_getnoise_eta1122_4x lies in [-eta1, eta1]; every         *)
(* coefficient of r2, r3 of poly_getnoise_eta1122_4x and of the output of  *)
(* poly_getnoise_eta2 lies in [-eta2, eta2]; and coefficient c is the      *)
(* number of set bits among bits 2 eta c .. 2 eta c + eta - 1 of the PRF   *)
(* output minus the number among the next eta bits, the bits taken least   *)
(* significant first within a byte and the bytes in increasing order.      *)
C19_NoiseBound ==
  LET eta1 == IF mlkem_k = 2 THEN 3 ELSE 2
      eta2 == 2
      sb(buf, n) == (buf[n \div 8] \div (2 ^ (n % 8))) % 2
      sampled(x, eta, n) ==
        LET buf == PRF(extkey(seed, n), 64 * eta)
        IN  {c \in Coeffs :
               \/ x[c] < -eta
               \/ x[c] > eta
               \/ x[c] # IF eta = 2
                         THEN sb(buf, 4 * c) + sb(buf, 4 * c + 1)
                              - sb(buf, 4 * c + 2) - sb(buf, 4 * c + 3)
                         ELSE sb(buf, 6 * c) + sb(buf, 6 * c + 1)
                              + sb(buf, 6 * c + 2) - sb(buf, 6 * c + 3)
                              - sb(buf, 6 * c + 4) - sb(buf, 6 * c + 5)} = {}
  IN  /\ pc \in {"eta1_4x", "eta1_4x_eta2"} =>
        \A k \in 1 .. 4 : sampled(noise[k], eta1, nonce[k])
      /\ pc \in {"eta1122_4x", "eta1122_4x_eta2"} =>
        /\ \A k \in 1 .. 2 : sampled(noise[k], eta1, nonce[k])
        /\ \A k \in 3 .. 4 : sampled(noise[k], eta2, nonce[k])
      /\ pc \in {"eta1_4x_eta2", "eta1122_4x_eta2"} =>
        sampled(r, eta2, nonce[trace[1]])

(* In the build with K = 2, poly_getnoise_eta1122_4x and then              *)
(* poly_getnoise_eta2 have run; r0 holds coefficients 3 and -3, r2 and the *)
(* output of poly_getnoise_eta2 hold coefficients 2 and -2                 *)
C19_Witness ==
  /\ mlkem_k = 2
  /\ pc = "eta1122_4x_eta2"
  /\ \E c \in Coeffs : noise[1][c] = 3
  /\ \E c \in Coeffs : noise[1][c] = -3
  /\ \E c \in Coeffs : noise[3][c] = 2
  /\ \E c \in Coeffs : noise[3][c] = -2
  /\ \E c \in Coeffs : r[c] = 2
  /\ \E c \in Coeffs : r[c] = -2

(* C20: with the PRF a function of (seed || nonce, length) alone, output k *)
(* of poly_getnoise_eta1_4x is CBD_eta1(PRF(seed || nonce_k, 64 eta1)) and *)
(* is the same whatever the other three nonces are; r0, r1 of              *)
(* poly_getnoise_eta1122_4x are CBD_eta1 of the PRF output for nonce0,     *)
(* nonce1 and r2, r3 are CBD_eta2 of the PRF output for nonce2, nonce3; r2 *)
(* equals the output of poly_getnoise_eta2(seed, nonce2); and this is so   *)
(* in the builds with eta1 = eta2 (one 4-way PRF call) and in the build    *)
(* with eta1 # eta2 (scalar PRF calls) alike.                              *)
C20_NoiseFunctional ==
  LET eta1 == IF mlkem_k = 2 THEN 3 ELSE 2
      cbd_prf(eta, n) == poly_cbd(eta, PRF(extkey(seed, n), 64 * eta))
  IN  /\ pc \in {"eta1_4x", "eta1_4x_eta2"} =>
        /\ \A k \in 1 .. 4 : noise[k] = cbd_prf(eta1, nonce[k])
        /\ \A nn \in NonceInputs : \A k \in 1 .. 4 :
             nn[k] = nonce[k] =>
               poly_getnoise_eta1_4x(mlkem_k, seed,
                                     nn[1], nn[2], nn[3], nn[4])[k] = noise[k]
      /\ pc \in {"eta1122_4x", "eta1122_4x_eta2"} =>
        /\ \A k \in 1 .. 2 : noise[k] = cbd_prf(eta1, nonce[k])
        /\ \A k \in 3 .. 4 : noise[k] = cbd_prf(2, nonce[k])
        /\ \A nn \in NonceInputs : \A k \in 1 .. 4 :
             nn[k] = nonce[k] =>
               poly_getnoise_eta1122_4x(mlkem_k, seed,
                                        nn[1], nn[2], nn[3], nn[4])[k] = noise[k]
      /\ (pc = "eta1122_4x_eta2" /\ trace[1] \in {3, 4}) =>
        r = noise[trace[1]]

(* In the build with K = 2 (scalar PRF calls), poly_getnoise_eta1122_4x    *)
(* has run on four different nonces and then poly_getnoise_eta2 on nonce2; *)
(* the four outputs differ from each other                                 *)
C20_Witness ==
  /\ mlkem_k = 2
  /\ pc = "eta1122_4x_eta2"
  /\ trace = <<3>>
  /\ \A j, k \in 1 .. 4 : j # k => nonce[j] # nonce[k] /\ noise[j] # noise[k]

(***************************************************************************)
(* Powers of the root of unity zeta = 17                                   *)
(***************************************************************************)
(* b^e mod q by repeated squaring, 0 <= b < q *)
RECURSIVE PowModQ(_, _)
PowModQ(base, e) ==
  IF e = 0 THEN 1
  ELSE IF e % 2 = 0 THEN PowModQ((base * base) % MLKEM_Q, e \div 2)
  ELSE (base * PowModQ((base * base) % MLKEM_Q, e \div 2)) % MLKEM_Q

(* The w-bit number n with its bits in reverse order *)
RECURSIVE BitRev(_, _)
BitRev(n, w) ==
  IF w = 0 THEN 0
  ELSE (n % 2) * 2 ^ (w - 1) + BitRev(n \div 2, w - 1)

(* C21, as stated: poly_ntt applied to p = (1, 0, ..., 0) gives in         *)
(* position k the value zeta^(br(k)) mod q, zeta = 17, br the bit reversal *)
(* of the index, Montgomery form understood.  Read in every way the        *)
(* sentence allows: k a coefficient index (8-bit reversal) or the index of *)
(* a coefficient pair (7-bit reversal, either coefficient of the pair),    *)
(* the value plain or multiplied by 2^16.                                  *)
C21_NttOfOneAsStated ==
  (pc = "ntt_done" /\ p = SpikePoly(0, 1)) =>
    \E mont \in {1, 65536 % MLKEM_Q} :
      \/ \A k \in Coeffs :
           (r[k] - mont * PowModQ(17, BitRev(k, 8))) % MLKEM_Q = 0
      \/ \A k \in Coeffs :
           (r[BitRev(k, 8)] - mont * PowModQ(17, BitRev(k, 8))) % MLKEM_Q = 0
      \/ \E odd \in {0, 1} : \A k \in 0 .. 127 :
           (r[2 * k + odd] - mont * PowModQ(17, BitRev(k, 7))) % MLKEM_Q = 0
      \/ \E odd \in {0, 1} : \A k \in 0 .. 127 :
           (r[2 * BitRev(k, 7) + odd] - mont * PowModQ(17, BitRev(k, 7)))
             % MLKEM_Q = 0

(* C21, amended: poly_ntt applied to p = (1, 0, ..., 0) gives 1 in every   *)
(* even position and 0 in every odd position (the constant 1 is 1 modulo   *)
(* every X^2 - zeta^(2 br(i) + 1)).  The powers of zeta are the transform  *)
(* of p = X^2: position 4 j holds zeta^(br7(64 + j)), position 4 j + 2 its *)
(* negative, and the odd positions hold 0, modulo q.                       *)
C21_NttOfOne ==
  /\ (pc = "ntt_done" /\ p = SpikePoly(0, 1)) =>
       \A k \in Coeffs : r[k] = IF k % 2 = 0 THEN 1 ELSE 0
  /\ (pc = "ntt_done" /\ p = SpikePoly(2, 1)) =>
       \A j \in 0 .. 63 :
         /\ (r[4 * j] - PowModQ(17, BitRev(64 + j, 7))) % MLKEM_Q = 0
         /\ (r[4 * j + 2] + PowModQ(17, BitRev(64 + j, 7))) % MLKEM_Q = 0
         /\ r[4 * j + 1] % MLKEM_Q = 0
         /\ r[4 * j + 3] % MLKEM_Q = 0

(* poly_ntt has run on p = (1, 0, ..., 0) *)
C21_Witness ==
  /\ pc = "ntt_done"
  /\ p = SpikePoly(0, 1)
  /\ r[0] = 1
  /\ r[255] = 0

(***************************************************************************)
(* SpecMont: fqmul on pairs of int16 values, and poly_tomont               *)
(***************************************************************************)
(* Faulty variant of poly_tomont: the factor is 2^16 mod q *)
poly_tomont_factor_mont(x) ==
  LET f == 65536 % MLKEM_Q
  IN  [i \in Coeffs |-> fqmul(x[i], f)]

(* const int16_t f = (1ULL << 32) % MLKEM_Q; r->coeffs[i] = fqmul(.., f)   *)
poly_tomont(x) ==
  LET f == ToInt16((65536 * (65536 % MLKEM_Q)) % MLKEM_Q)
  IN  [i \in Coeffs |-> fqmul(x[i], f)]

(* Second factors of fqmul: the ends of int16, the ends of (-q, q), the    *)
(* first values outside it, a twiddle and 2^32 mod q                       *)
FqmulFactors ==
  <<INT16_MIN, INT16_MAX, -(MLKEM_Q - 1), MLKEM_Q - 1,
    MLKEM_Q, -MLKEM_Q, mlkem_l1zeta1, 1353>>

(* Coefficient i is factor number (i + s) mod 8 *)
FactorPoly(s) ==
  [i \in Coeffs |-> FqmulFactors[((i + s) % Len(FqmulFactors)) + 1]]

(* r takes every int16 value, and meets every factor *)
InitMont ==
  /\ pc = "mo_start"
  /\ r \in {RampPoly(k) : k \in 0 .. (65536 \div MLKEM_N - 1)}
  /\ b \in {FactorPoly(s) : s \in 0 .. (Len(FqmulFactors) - 1)}
  /\ p = r
  /\ ntt_of_p = FALSE
  /\ a = ZeroPoly
  /\ b_cache = ZeroCache
  /\ bytes = NoBytes
  /\ mlkem_k = MLKEM_K
  /\ msg = NoMsg
  /\ seed = NoSeed
  /\ nonce = NoNonces
  /\ noise = NoNoise
  /\ trace = NoTrace

(* a[i] = fqmul(r[i], b[i]) for every i *)
Do_fqmul ==
  /\ pc = "mo_start"
  /\ a' = [i \in Coeffs |-> fqmul(r[i], b[i])]
  /\ pc' = "fqmul"
  /\ UNCHANGED <<r, p, ntt_of_p, b, b_cache, bytes, build_vars>>

(* poly_tomont(&r); p keeps the value before the call *)
Do_poly_tomont ==
  /\ pc = "mo_start"
  /\ r' = poly_tomont(r)
  /\ pc' = "tomont"
  /\ UNCHANGED <<p, ntt_of_p, a, b, b_cache, bytes, build_vars>>

NextMont ==
  \/ Do_fqmul
  \/ Do_poly_tomont

SpecMont == InitMont /\ [][NextMont]_vars

(* C22, as stated: for all int16 a and b (each of which satisfies          *)
(* |a| <= q 2^15), r = fqmul(a, b) satisfies r 2^16 = a b modulo q and     *)
(* -q < r < q.                                                             *)
C22_FqmulRangeAsStated ==
  pc = "fqmul" =>
    \A i \in Coeffs :
      /\ ((a[i] % MLKEM_Q) * 65536 - ((r[i] * b[i]) % MLKEM_Q)) % MLKEM_Q = 0
      /\ -MLKEM_Q < a[i]
      /\ a[i] < MLKEM_Q

(* C22, amended: for all int16 a and b, r = fqmul(a, b) satisfies          *)
(* r 2^16 = a b modulo q; -q < r < q holds when |a b| < q 2^15, which is   *)
(* the case whenever one of the factors is below q in absolute value; for  *)
(* arbitrary int16 factors |r| <= 2^14 + (q - 1) / 2.                      *)
C22_FqmulRange ==
  pc = "fqmul" =>
    \A i \in Coeffs :
      /\ ((a[i] % MLKEM_Q) * 65536 - ((r[i] * b[i]) % MLKEM_Q)) % MLKEM_Q = 0
      /\ (Abs(r[i] * b[i]) < MLKEM_Q * 32768) =>
           (-MLKEM_Q < a[i] /\ a[i] < MLKEM_Q)
      /\ (Abs(r[i]) < MLKEM_Q \/ Abs(b[i]) < MLKEM_Q) =>
           (-MLKEM_Q < a[i] /\ a[i] < MLKEM_Q)
      /\ Abs(a[i]) <= 16384 + (MLKEM_Q - 1) \div 2

(* fqmul has been applied to a pair with |a b| >= q 2^15 and returned a    *)
(* value outside (-q, q), and to a pair with one factor of absolute value  *)
(* q - 1 and the other beyond 2^15 - 256                                   *)
C22_Witness ==
  /\ pc = "fqmul"
  /\ \E i \in Coeffs :
       Abs(r[i] * b[i]) >= MLKEM_Q * 32768 /\ Abs(a[i]) >= MLKEM_Q
  /\ \E i \in Coeffs :
       Abs(b[i]) = MLKEM_Q - 1 /\ Abs(r[i]) > 32767 - MLKEM_N

(* C23: for every polynomial of arbitrary int16 coefficients, poly_tomont  *)
(* replaces each coefficient c by fqmul(c, 1353), a value congruent to     *)
(* c 2^16 modulo q, and every output coefficient has absolute value < q.   *)
C23_TomontValue ==
  pc = "tomont" =>
    \A i \in Coeffs :
      /\ r[i] = fqmul(p[i], 1353)
      /\ (r[i] - (p[i] % MLKEM_Q) * 65536) % MLKEM_Q = 0
      /\ Abs(r[i]) < MLKEM_Q

(* poly_tomont has run on a polynomial that holds INT16_MIN (or INT16_MAX) *)
(* and has changed it                                                      *)
C23_Witness ==
  /\ pc = "tomont"
  /\ \E i \in Coeffs : p[i] \in {INT16_MIN, INT16_MAX} /\ r[i] # p[i]

(***************************************************************************)
(* The sums and differences of the transforms, before they are converted   *)
(* to int16_t                                                              *)
(***************************************************************************)
(* ct_butterfly: t2 - t1 and t2 + t1 *)
ct_butterfly_sums(x, ca, cb, zeta) ==
  LET t1 == fqmul(x[cb], zeta)
      t2 == x[ca]
  IN  {t2 - t1, t2 + t1}

(* The twelve butterflies of ntt_layer123 for one j, each on the           *)
(* coefficients the butterflies before it have left                        *)
ntt_layer123_body_sums(x, j) ==
  LET ci1 == j + 0
      ci2 == j + 32
      ci3 == j + 64
      ci4 == j + 96
      ci5 == j + 128
      ci6 == j + 160
      ci7 == j + 192
      ci8 == j + 224
      s1  == ct_butterfly(x,   ci1, ci5, mlkem_l1zeta1)
      s2  == ct_butterfly(s1,  ci3, ci7, mlkem_l1zeta1)
      s3  == ct_butterfly(s2,  ci2, ci6, mlkem_l1zeta1)
      s4  == ct_butterfly(s3,  ci4, ci8, mlkem_l1zeta1)
      s5  == ct_butterfly(s4,  ci1, ci3, mlkem_l2zeta2)
      s6  == ct_butterfly(s5,  ci5, ci7, mlkem_l2zeta3)
      s7  == ct_butterfly(s6,  ci2, ci4, mlkem_l2zeta2)
      s8  == ct_butterfly(s7,  ci6, ci8, mlkem_l2zeta3)
      s9  == ct_butterfly(s8,  ci1, ci2, mlkem_l3zeta4)
      s10 == ct_butterfly(s9,  ci3, ci4, mlkem_l3zeta5)
      s11 == ct_butterfly(s10, ci5, ci6, mlkem_l3zeta6)
  IN  ct_butterfly_sums(x,   ci1, ci5, mlkem_l1zeta1)
      \cup ct_butterfly_sums(s1,  ci3, ci7, mlkem_l1zeta1)
      \cup ct_butterfly_sums(s2,  ci2, ci6, mlkem_l1zeta1)
      \cup ct_butterfly_sums(s3,  ci4, ci8, mlkem_l1zeta1)
      \cup ct_butterfly_sums(s4,  ci1, ci3, mlkem_l2zeta2)
      \cup ct_butterfly_sums(s5,  ci5, ci7, mlkem_l2zeta3)
      \cup ct_butterfly_sums(s6,  ci2, ci4, mlkem_l2zeta2)
      \cup ct_butterfly_sums(s7,  ci6, ci8, mlkem_l2zeta3)
      \cup ct_butterfly_sums(s8,  ci1, ci2, mlkem_l3zeta4)
      \cup ct_butterfly_sums(s9,  ci3, ci4, mlkem_l3zeta5)
      \cup ct_butterfly_sums(s10, ci5, ci6, mlkem_l3zeta6)
      \cup ct_butterfly_sums(s11, ci7, ci8, mlkem_l3zeta7)

(* The four butterflies of ntt_layer45_butterfly for one j *)
ntt_layer45_body_sums(x, zeta_subtree_index, start, j) ==
  LET z1 == mlkem_layer4_zetas[zeta_subtree_index + 1]
      z2 == mlkem_layer5_even_zetas[zeta_subtree_index + 1]
      z3 == mlkem_layer5_odd_zetas[zeta_subtree_index + 1]
      ci1 == j + start
      ci2 == ci1 + 8
      ci3 == ci1 + 16
      ci4 == ci1 + 24
      s1 == ct_butterfly(x,  ci1, ci3, z1)
      s2 == ct_butterfly(s1, ci2, ci4, z1)
      s3 == ct_butterfly(s2, ci1, ci2, z2)
  IN  ct_butterfly_sums(x,  ci1, ci3, z1)
      \cup ct_butterfly_sums(s1, ci2, ci4, z1)
      \cup ct_butterfly_sums(s2, ci1, ci2, z2)
      \cup ct_butterfly_sums(s3, ci3, ci4, z3)

(* ntt_layer7_butterfly: c0 + zc2, c1 + zc3, c0 - zc2, c1 - zc3 *)
ntt_layer7_butterfly_sums(x, zeta_index, start) ==
  LET zeta == mlkem_layer7_zetas[zeta_index + 1]
      c0 == x[start]
      c1 == x[start + 1]
      zc2 == fqmul(x[start + 2], zeta)
      zc3 == fqmul(x[start + 3], zeta)
  IN  {c0 + zc2, c1 + zc3, c0 - zc2, c1 - zc3}

(* All sums and differences of one layer function of poly_ntt on input x;  *)
(* at names the layer function that runs next                              *)
poly_ntt_sums(at, x) ==
  CASE at = "start" ->
         UNION {ntt_layer123_body_sums(x, j) : j \in 0 .. 31}
    [] at = "ntt_layer123" ->
         UNION {ntt_layer45_body_sums(x, ntt_layer45_calls[k][1],
                                      ntt_layer45_calls[k][2], j) :
                  k \in 1 .. 8, j \in 0 .. 7}
    [] at = "ntt_layer45" ->
         UNION {ct_butterfly_sums(x, j + 8 * c, j + 8 * c + 4,
                                  mlkem_layer6_zetas[c + 1]) :
                  c \in 0 .. 31, j \in 0 .. 3}
    [] at = "ntt_layer6" ->
         UNION {ntt_layer7_butterfly_sums(x, j, j * 4) : j \in 0 .. 63}

(* Faulty variant of invntt_layer7_invert_sums: the coefficients are not   *)
(* multiplied by MONT_F before they are added                              *)
invntt_layer7_invert_sums_unscaled(x) ==
  UNION {{x[4 * i + k] + x[4 * i + k + 2], x[4 * i + k + 2] - x[4 * i + k]} :
           i \in 0 .. 63, k \in 0 .. 1}

(* invntt_layer7_invert: c0 + c2, c2 - c0, c1 + c3, c3 - c1 of every call, *)
(* c = fqmul(coefficient, MONT_F)                                          *)
invntt_layer7_invert_sums(x) ==
  UNION {LET ca == fqmul(x[4 * i + k], MONT_F)
             cb == fqmul(x[4 * i + k + 2], MONT_F)
         IN  {ca + cb, cb - ca} :
           i \in 0 .. 63, k \in 0 .. 1}

(* invntt_layer6: c0 + c4, c4 - c0, ..., c3 + c7, c7 - c3 of every call *)
invntt_layer6_sums(x) ==
  UNION {{x[8 * i + k] + x[8 * i + k + 4], x[8 * i + k + 4] - x[8 * i + k]} :
           i \in 0 .. 31, k \in 0 .. 3}

(* invntt_layer54_butterfly for one j: the sums and differences of layer 5 *)
(* on the input, and those of layer 4 on what layer 5 has left (sums not   *)
(* reduced, differences multiplied by the twiddle)                         *)
invntt_layer54_body_sums(x, zeta_index, start, j) ==
  LET l5zeta1 == mlkem_layer5_even_zetas[zeta_index + 1]
      l5zeta2 == mlkem_layer5_odd_zetas[zeta_index + 1]
      c0  == x[j + start]
      c8  == x[j + start + 8]
      c16 == x[j + start + 16]
      c24 == x[j + start + 24]
      d0  == ToInt16(c0 + c8)
      d8  == fqmul(ToInt16(c8 - c0), l5zeta2)
      d16 == ToInt16(c16 + c24)
      d24 == fqmul(ToInt16(c24 - c16), l5zeta1)
  IN  {c0 + c8, c8 - c0, c16 + c24, c24 - c16,
       d0 + d16, d16 - d0, d8 + d24, d24 - d8}

(* gs_butterfly: ca_val + cb_val and cb_val - ca_val *)
gs_butterfly_sums(x, ca, cb) == {x[ca] + x[cb], x[cb] - x[ca]}

(* The twelve butterflies of invntt_layer321 for one j *)
invntt_layer321_body_sums(x, j) ==
  LET ci0   == j + 0
      ci32  == j + 32
      ci64  == j + 64
      ci96  == j + 96
      ci128 == j + 128
      ci160 == j + 160
      ci192 == j + 192
      ci224 == j + 224
      s1  == gs_butterfly(x,   ci0,   ci32,  mlkem_l3zeta7)
      s2  == gs_butterfly(s1,  ci64,  ci96,  mlkem_l3zeta6)
      s3  == gs_butterfly(s2,  ci128, ci160, mlkem_l3zeta5)
      s4  == gs_butterfly(s3,  ci192, ci224, mlkem_l3zeta4)
      s5  == gs_butterfly(s4,  ci0,   ci64,  mlkem_l2zeta3)
      s6  == gs_butterfly(s5,  ci32,  ci96,  mlkem_l2zeta3)
      s7  == gs_butterfly(s6,  ci128, ci192, mlkem_l2zeta2)
      s8  == gs_butterfly(s7,  ci160, ci224, mlkem_l2zeta2)
      s9  == gs_butterfly(s8,  ci0,   ci128, mlkem_l1zeta1)
      s10 == gs_butterfly(s9,  ci32,  ci160, mlkem_l1zeta1)
      s11 == gs_butterfly(s10, ci64,  ci192, mlkem_l1zeta1)
  IN  gs_butterfly_sums(x,   ci0,   ci32)
      \cup gs_butterfly_sums(s1,  ci64,  ci96)
      \cup gs_butterfly_sums(s2,  ci128, ci160)
      \cup gs_butterfly_sums(s3,  ci192, ci224)
      \cup gs_butterfly_sums(s4,  ci0,   ci64)
      \cup gs_butterfly_sums(s5,  ci32,  ci96)
      \cup gs_butterfly_sums(s6,  ci128, ci192)
      \cup gs_butterfly_sums(s7,  ci160, ci224)
      \cup gs_butterfly_sums(s8,  ci0,   ci128)
      \cup gs_butterfly_sums(s9,  ci32,  ci160)
      \cup gs_butterfly_sums(s10, ci64,  ci192)
      \cup gs_butterfly_sums(s11, ci96,  ci224)

(* All sums and differences of one layer function of poly_invntt_tomont on *)
(* input x; at names the layer function that runs next                     *)
poly_invntt_tomont_sums(at, x) ==
  CASE at = "invntt_layer7_invert" -> invntt_layer7_invert_sums(x)
    [] at = "invntt_layer6" -> invntt_layer6_sums(x)
    [] at = "invntt_layer54" ->
         UNION {invntt_layer54_body_sums(x, invntt_layer54_calls[k][1],
                                         invntt_layer54_calls[k][2], j) :
                  k \in 1 .. 8, j \in 0 .. 7}
    [] at = "invntt_layer321" ->
         UNION {invntt_layer321_body_sums(x, j) : j \in 0 .. 31}

(* C24: no int16 overflow in the transforms: in every layer function of    *)
(* poly_ntt on an input with all |coefficient| < q, and in every layer     *)
(* function of poly_invntt_tomont on any int16 input, every sum a + t and  *)
(* every difference a - t or b - a (the unreduced sums of layer 5 that     *)
(* feed layer 4 and the deferred sums of layers 3, 2, 1 included), and so  *)
(* every value stored into a coefficient, lies in [-32768, 32767].  The    *)
(* sums are those of the layer function that runs next in the state.       *)
C24_NoInt16Overflow ==
  LET in_int16(S) == {v \in S : v < -32768 \/ v > 32767} = {}
  IN  /\ (pc = "start" /\ array_abs_bound(r, MLKEM_Q - 1)) =>
           in_int16(poly_ntt_sums("start", r))
      /\ pc \in {"ntt_layer123", "ntt_layer45", "ntt_layer6"} =>
           in_int16(poly_ntt_sums(pc, r))
      /\ pc \in {"start", "ntt_done"} =>
           in_int16(poly_invntt_tomont_sums("invntt_layer7_invert", r))
      /\ pc = "invntt_layer7" =>
           in_int16(poly_invntt_tomont_sums("invntt_layer6", r))
      /\ pc = "invntt_layer6" =>
           in_int16(poly_invntt_tomont_sums("invntt_layer54", r))
      /\ pc = "invntt_layer54" =>
           in_int16(poly_invntt_tomont_sums("invntt_layer321", r))
      /\ \A i \in Coeffs : -32768 <= r[i] /\ r[i] <= 32767

(* invntt_layer54 is about to run on the unreduced sums invntt_layer6 has  *)
(* left, and one of the sums it computes has a magnitude above 3q: a layer *)
(* 4 sum of two unreduced layer 5 sums                                     *)
C24_Witness ==
  /\ pc = "invntt_layer6"
  /\ ~ntt_of_p
  /\ \E i \in Coeffs : Abs(r[i]) > (MLKEM_Q - 1) \div 2
  /\ \E v \in poly_invntt_tomont_sums("invntt_layer54", r) :
       Abs(v) > 3 * MLKEM_Q

(* Faulty variant of zetas: the table holds the powers of 17 themselves,   *)
(* without the Montgomery factor 2^16                                      *)
zetas_plain(k) ==
  LET c == PowModQ(17, BitRev(k, 7))
  IN  IF c > (MLKEM_Q - 1) \div 2 THEN c - MLKEM_Q ELSE c

(***************************************************************************)
(* The full twiddle table and the layer-by-layer inverse NTT               *)
(***************************************************************************)
(* Entry k, 1 <= k <= 127, of the full table the layer tables are cut from *)
zetas(k) ==
  CASE k = 1 -> mlkem_l1zeta1
    [] k = 2 -> mlkem_l2zeta2
    [] k = 3 -> mlkem_l2zeta3
    [] k = 4 -> mlkem_l3zeta4
    [] k = 5 -> mlkem_l3zeta5
    [] k = 6 -> mlkem_l3zeta6
    [] k = 7 -> mlkem_l3zeta7
    [] k \in 8 .. 15 -> mlkem_layer4_zetas[k - 8 + 1]
    [] k \in 16 .. 31 /\ k % 2 = 0 ->
         mlkem_layer5_even_zetas[((k - 16) \div 2) + 1]
    [] k \in 16 .. 31 /\ k % 2 = 1 ->
         mlkem_layer5_odd_zetas[((k - 17) \div 2) + 1]
    [] k \in 32 .. 63 -> mlkem_layer6_zetas[k - 32 + 1]
    [] k \in 64 .. 127 -> mlkem_layer7_zetas[k - 64 + 1]

(* Faulty variant of invntt_layer: k counts up from the first twiddle of   *)
(* the layer, as in the forward transform                                  *)
invntt_layer_forward_zetas(x, len) ==
  [i \in Coeffs |->
     LET zeta == zetas(((MLKEM_N \div len) \div 2) + (i \div (2 * len)))
     IN  IF i % (2 * len) < len
           THEN barrett_reduce(ToInt16(x[i] + x[i + len]))
           ELSE fqmul(ToInt16(x[i] - x[i - len]), zeta)]

(* invntt_layer: one Gentleman-Sande layer; the block that starts at start *)
(* takes zetas[k], k = MLKEM_N / len - 1 - start / (2 * len)               *)
invntt_layer(x, len) ==
  [i \in Coeffs |->
     LET zeta == zetas((MLKEM_N \div len) - 1 - (i \div (2 * len)))
     IN  IF i % (2 * len) < len
           THEN barrett_reduce(ToInt16(x[i] + x[i + len]))
           ELSE fqmul(ToInt16(x[i] - x[i - len]), zeta)]

(* The input scaling of the layer-by-layer poly_invntt_tomont *)
invntt_scale(x) == [i \in Coeffs |-> fqmul(x[i], MONT_F)]

(* One Cooley-Tukey layer L whose block g takes the twiddle at position    *)
(* 2^(L-1) + g of the full table                                           *)
CtLayerAt(x, L) ==
  LET len == 2 ^ (8 - L)
  IN  [i \in Coeffs |->
         LET zeta == zetas(2 ^ (L - 1) + (i \div (2 * len)))
         IN  IF i % (2 * len) < len
               THEN ToInt16(x[i] + fqmul(x[i + len], zeta))
               ELSE ToInt16(x[i - len] - fqmul(x[i], zeta))]

(* One Gentleman-Sande layer L whose block g takes the twiddle at position *)
(* 2^L - 1 - g of the full table: invntt_layer with len = 2^(8-L)          *)
GsLayerAt(x, L) == invntt_layer(x, 2 ^ (8 - L))

PolyCongruent(x, y) == {i \in Coeffs : ~Congruent(x[i], y[i])} = {}

(* C25: at every layer L and group g the forward transform uses the        *)
(* twiddle at position 2^(L-1) + g of the full table and the inverse the   *)
(* one at the reversed position 2^L - 1 - g: each layer function of        *)
(* poly_ntt leaves exactly what the Cooley-Tukey layers with the forward   *)
(* positions leave, and each layer function of poly_invntt_tomont leaves   *)
(* coefficients congruent mod q to those of the Gentleman-Sande layers     *)
(* with the reversed positions (layer 7 after the scaling by 1441).        *)
C25_TwiddlePositions ==
  [][/\ pc' = "ntt_layer123" =>
          r' = CtLayerAt(CtLayerAt(CtLayerAt(r, 1), 2), 3)
     /\ pc' = "ntt_layer45" => r' = CtLayerAt(CtLayerAt(r, 4), 5)
     /\ pc' = "ntt_layer6" => r' = CtLayerAt(r, 6)
     /\ pc' = "ntt_done" => r' = CtLayerAt(r, 7)
     /\ pc' = "invntt_layer7" =>
          PolyCongruent(r', GsLayerAt(invntt_scale(r), 7))
     /\ pc' = "invntt_layer6" => PolyCongruent(r', GsLayerAt(r, 6))
     /\ pc' = "invntt_layer54" =>
          PolyCongruent(r', GsLayerAt(GsLayerAt(r, 5), 4))
     /\ pc' = "invntt_done" =>
          PolyCongruent(r', GsLayerAt(GsLayerAt(GsLayerAt(r, 3), 2), 1))]_vars

(* The inverse transform has run its four layer functions on the output of *)
(* the forward transform of an input with more than one nonzero            *)
(* coefficient, so every twiddle of every layer has multiplied a nonzero   *)
(* value                                                                   *)
C25_Witness ==
  /\ pc = "invntt_done"
  /\ ntt_of_p
  /\ Cardinality({i \in Coeffs : p[i] # 0}) > 1
  /\ \E i \in Coeffs : r[i] # 0

(***************************************************************************)
(* SpecZetas: a multiplication by one entry of the full twiddle table      *)
(***************************************************************************)
ZetaPositions == 1 .. 127

InitZetas ==
  /\ pc = "zt_start"
  /\ r \in {RampPoly(s) : s \in {1, 130}}
  /\ trace \in {<<k>> : k \in ZetaPositions}
  /\ p = r
  /\ ntt_of_p = FALSE
  /\ a = ZeroPoly
  /\ b = ZeroPoly
  /\ b_cache = ZeroCache
  /\ bytes = NoBytes
  /\ mlkem_k = MLKEM_K
  /\ msg = NoMsg
  /\ seed = NoSeed
  /\ nonce = NoNonces
  /\ noise = NoNoise

(* t = fqmul(r[i], zeta) with zeta the entry at position trace[1] *)
Do_twiddle_fqmul ==
  /\ pc = "zt_start"
  /\ a' = [i \in Coeffs |-> fqmul(r[i], zetas(trace[1]))]
  /\ pc' = "twiddled"
  /\ UNCHANGED <<r, p, ntt_of_p, b, b_cache, bytes, build_vars>>

NextZetas == Do_twiddle_fqmul

SpecZetas == InitZetas /\ [][NextZetas]_vars

(* C26: every twiddle constant is the centred representative in            *)
(* (-q/2, q/2) of 17^bitrev7(k) * 2^16 mod q, k its position in the full   *)
(* table (k = 1 layer 1, 2..3 layer 2, 4..7 layer 3, 8..15 layer 4, even   *)
(* and odd k of 16..31 the two layer 5 tables, 32..63 layer 6, 64..127     *)
(* layer 7); so fqmul by the entry at k multiplies by 17^bitrev7(k) mod q. *)
C26_ZetaValues ==
  LET CentredRep(v) ==
        IF v % MLKEM_Q > (MLKEM_Q - 1) \div 2
          THEN (v % MLKEM_Q) - MLKEM_Q
          ELSE v % MLKEM_Q
      Power(k) == PowModQ(17, BitRev(k, 7))
  IN  /\ \A k \in ZetaPositions :
           zetas(k) = CentredRep(Power(k) * (65536 % MLKEM_Q))
      /\ mlkem_l1zeta1 = -758
      /\ pc = "twiddled" =>
           \A i \in Coeffs :
             Congruent(a[i], (r[i] % MLKEM_Q) * Power(trace[1]))

(* A nonzero coefficient has been multiplied by the last entry of the      *)
(* layer 5 odd table, position 31 of the full table                        *)
C26_Witness ==
  /\ pc = "twiddled"
  /\ trace = <<31>>
  /\ zetas(31) = mlkem_layer5_odd_zetas[8]
  /\ \E i \in Coeffs : a[i] # 0 /\ r[i] # 0

(***************************************************************************)
(* SpecAcc: a sum of products accumulated with poly_add                    *)
(***************************************************************************)
(* The most polynomials that are accumulated: one per entry of a vector of *)
(* the largest parameter set                                               *)
MaxAccumulated == 4

(* Operands a, b and mulcache of the products that are accumulated: the    *)
(* extremes of the operand ranges, with the mulcache of b or with          *)
(* arbitrary int16 entries                                                 *)
AccOperands ==
  {<<ConstPoly(UINT12_MAX), ConstPoly(INT16_MIN),
     [k \in CacheIdx |-> INT16_MIN]>>,
   <<ConstPoly(-UINT12_MAX), ConstPoly(INT16_MAX),
     [k \in CacheIdx |-> INT16_MAX]>>,
   <<ConstPoly(UINT12_MAX), ConstPoly(INT16_MAX),
     poly_mulcache_compute(ZeroCache, ConstPoly(INT16_MAX))>>,
   <<MixPoly(1, -UINT12_MAX, UINT12_MAX), MixPoly(2, INT16_MIN, INT16_MAX),
     poly_mulcache_compute(ZeroCache, MixPoly(2, INT16_MIN, INT16_MAX))>>,
   <<MixPoly(2, -UINT12_MAX, UINT12_MAX), ConstPoly(INT16_MIN),
     [k \in CacheIdx |-> INT16_MAX]>>}

BasemulOutputs ==
  {poly_basemul_montgomery_cached(ZeroPoly, t[1], t[2], t[3]) :
     t \in AccOperands}

InitAcc ==
  /\ pc = "acc_1"
  /\ r \in BasemulOutputs
  /\ p = r
  /\ ntt_of_p = FALSE
  /\ a = ZeroPoly
  /\ b = ZeroPoly
  /\ b_cache = ZeroCache
  /\ bytes = NoBytes
  /\ mlkem_k = MLKEM_K
  /\ msg = NoMsg
  /\ seed = NoSeed
  /\ nonce = NoNonces
  /\ noise = NoNoise
  /\ trace = <<1>>

(* poly_add(&r, &t) with t a product; p keeps r as it was before the call, *)
(* b the polynomial that was added, trace the number accumulated           *)
Do_poly_add ==
  /\ pc \in {"acc_1", "acc_add"}
  /\ trace[1] < MaxAccumulated
  /\ \E t \in BasemulOutputs :
       /\ r' = poly_add(r, t)
       /\ b' = t
  /\ p' = r
  /\ trace' = <<trace[1] + 1>>
  /\ pc' = "acc_add"
  /\ UNCHANGED <<ntt_of_p, a, b_cache, bytes, mlkem_k, msg, seed, nonce,
                 noise>>

NextAcc == Do_poly_add

SpecAcc == InitAcc /\ [][NextAcc]_vars

(* C29: when up to 4 outputs of poly_basemul_montgomery_cached are         *)
(* accumulated with successive poly_add calls, after every call each       *)
(* coefficient is the exact integer sum r_old[i] + b[i], no reduction, and *)
(* its magnitude is at most 4 * (2q - 1) = 26628, so there is no int16     *)
(* overflow.                                                               *)
C29_AccumulateExact ==
  /\ pc = "acc_add" =>
       \A i \in Coeffs : r[i] = p[i] + b[i]
  /\ trace[1] <= 4 =>
       /\ array_abs_bound(r, trace[1] * (2 * MLKEM_Q - 1))
       /\ array_abs_bound(r, 26628)

(* Four products have been accumulated and a coefficient of the sum is     *)
(* beyond the range of a single product                                    *)
C29_Witness ==
  /\ pc = "acc_add"
  /\ trace = <<4>>
  /\ \E i \in Coeffs : Abs(r[i]) > 3 * (2 * MLKEM_Q - 1)
  /\ \E i \in Coeffs : b[i] # 0

(* C30: compressed encodings are canonical: for every byte string c of the *)
(* length of a compressed polynomial, poly_compress_du of                  *)
(* poly_decompress_du of c is c again (d = 10, 11), and the same for dv    *)
(* (d = 4, 5); coefficient by coefficient, compress_d(decompress_d(y)) = y *)
(* for the d-bit field y of c, and every decompressed coefficient is in    *)
(* [0, q).                                                                 *)
C30_EncodingCanonical ==
  /\ pc = "recompressed_du" =>
       /\ msg = bytes
       /\ \A i \in Coeffs :
            /\ 0 <= a[i] /\ a[i] < MLKEM_Q
            /\ scalar_compress(BitsDU(mlkem_k), a[i])
                 = StreamBits(bytes, i * BitsDU(mlkem_k), BitsDU(mlkem_k))
  /\ pc = "recompressed_dv" =>
       /\ msg = bytes
       /\ \A i \in Coeffs :
            /\ 0 <= a[i] /\ a[i] < MLKEM_Q
            /\ scalar_compress(BitsDV(mlkem_k), a[i])
                 = StreamBits(bytes, i * BitsDV(mlkem_k), BitsDV(mlkem_k))

(* An 11-bit encoding that holds the largest field value, 2047, has been   *)
(* decompressed and compressed again                                       *)
C30_Witness ==
  /\ pc = "recompressed_du"
  /\ BitsDU(mlkem_k) = 11
  /\ \E i \in Coeffs : StreamBits(bytes, i * 11, 11) = 2047
  /\ \E i, j \in Coeffs : a[i] # a[j]
  /\ DOMAIN msg = DOMAIN bytes

(* Faulty variant of poly_invntt_tomont_layered: the layers run from       *)
(* len = 128 down to 2, in the order of the forward transform              *)
poly_invntt_tomont_layered_descending(x) ==
  invntt_layer(invntt_layer(invntt_layer(invntt_layer(invntt_layer(
    invntt_layer(invntt_layer(invntt_scale(x), 128), 64), 32), 16), 8), 4), 2)

(* The layer-by-layer poly_invntt_tomont: every coefficient multiplied by  *)
(* 1441 with fqmul, then invntt_layer for len = 2, 4, ..., 128             *)
poly_invntt_tomont_layered(x) ==
  invntt_layer(invntt_layer(invntt_layer(invntt_layer(invntt_layer(
    invntt_layer(invntt_layer(invntt_scale(x), 2), 4), 8), 16), 32), 64), 128)

(* C28: for every int16 input the merged-layer poly_invntt_tomont leaves   *)
(* coefficients congruent mod q, position by position, to those of the     *)
(* layer-by-layer Gentleman-Sande transform that first multiplies every    *)
(* coefficient by 1441 with fqmul and then runs the layers len = 2, 4,     *)
(* ..., 128 with the twiddles at positions 127 down to 1 of the full table *)
(* and a Barrett reduction of every sum.  p is the input of the transform  *)
(* when it was not preceded by poly_ntt.                                   *)
C28_MergedMatchesLayered ==
  (pc = "invntt_done" /\ ~ntt_of_p) =>
    PolyCongruent(r, poly_invntt_tomont_layered(p))

(* The merged transform has run on an input that holds INT16_MIN or        *)
(* INT16_MAX and has left a coefficient that differs from the one of the   *)
(* layer-by-layer transform, congruent to it                               *)
C28_Witness ==
  /\ pc = "invntt_done"
  /\ ~ntt_of_p
  /\ \E i \in Coeffs : p[i] \in {INT16_MIN, INT16_MAX}
  /\ \E i \in Coeffs : r[i] # poly_invntt_tomont_layered(p)[i]

(***************************************************************************)
(* SpecRing: a product in Z_q[X]/(X^256 + 1) computed through the NTT      *)
(* domain, one step per function called                                    *)
(***************************************************************************)
(* Polynomials with all |coefficient| < q *)
RingAInputs ==
  {SpikePoly(1, 1), SpikePoly(255, MLKEM_Q - 1), ConstPoly(MLKEM_Q - 1),
   MixPoly(1, -(MLKEM_Q - 1), MLKEM_Q - 1)}

RingBInputs ==
  {SpikePoly(255, 1), ConstPoly(-(MLKEM_Q - 1)),
   MixPoly(2, -(MLKEM_Q - 1), MLKEM_Q - 1)}

(* a and b are transformed in place; p and noise[1] keep them as given *)
InitRing ==
  /\ pc = "rm_start"
  /\ a \in RingAInputs
  /\ b \in RingBInputs
  /\ p = a
  /\ noise = <<b>>
  /\ r = ZeroPoly
  /\ ntt_of_p = FALSE
  /\ b_cache = ZeroCache
  /\ bytes = NoBytes
  /\ mlkem_k = MLKEM_K
  /\ msg = NoMsg
  /\ seed = NoSeed
  /\ nonce = NoNonces
  /\ trace = NoTrace

(* ntt_layer123 of poly_ntt(&a), or of poly_ntt(&b) once a is done *)
Do_ring_ntt_layer123 ==
  /\ pc \in {"rm_start", "rm_a_reduced"}
  /\ a' = IF pc = "rm_start" THEN ntt_layer123(a) ELSE a
  /\ b' = IF pc = "rm_start" THEN b ELSE ntt_layer123(b)
  /\ pc' = IF pc = "rm_start" THEN "rm_a_layer123" ELSE "rm_b_layer123"
  /\ UNCHANGED <<r, p, ntt_of_p, b_cache, bytes, build_vars>>

Do_ring_ntt_layer45 ==
  /\ pc \in {"rm_a_layer123", "rm_b_layer123"}
  /\ a' = IF pc = "rm_a_layer123" THEN ntt_layer45(a) ELSE a
  /\ b' = IF pc = "rm_a_layer123" THEN b ELSE ntt_layer45(b)
  /\ pc' = IF pc = "rm_a_layer123" THEN "rm_a_layer45" ELSE "rm_b_layer45"
  /\ UNCHANGED <<r, p, ntt_of_p, b_cache, bytes, build_vars>>

Do_ring_ntt_layer6 ==
  /\ pc \in {"rm_a_layer45", "rm_b_layer45"}
  /\ a' = IF pc = "rm_a_layer45" THEN ntt_layer6(a) ELSE a
  /\ b' = IF pc = "rm_a_layer45" THEN b ELSE ntt_layer6(b)
  /\ pc' = IF pc = "rm_a_layer45" THEN "rm_a_layer6" ELSE "rm_b_layer6"
  /\ UNCHANGED <<r, p, ntt_of_p, b_cache, bytes, build_vars>>

Do_ring_ntt_layer7 ==
  /\ pc \in {"rm_a_layer6", "rm_b_layer6"}
  /\ a' = IF pc = "rm_a_layer6" THEN ntt_layer7(a) ELSE a
  /\ b' = IF pc = "rm_a_layer6" THEN b ELSE ntt_layer7(b)
  /\ pc' = IF pc = "rm_a_layer6" THEN "rm_a_ntt" ELSE "rm_b_ntt"
  /\ UNCHANGED <<r, p, ntt_of_p, b_cache, bytes, build_vars>>

(* poly_reduce(&a) *)
Do_ring_poly_reduce ==
  /\ pc = "rm_a_ntt"
  /\ a' = poly_reduce(a)
  /\ pc' = "rm_a_reduced"
  /\ UNCHANGED <<r, p, ntt_of_p, b, b_cache, bytes, build_vars>>

(* poly_mulcache_compute(&b_cache, &b) *)
Do_ring_poly_mulcache_compute ==
  /\ pc = "rm_b_ntt"
  /\ b_cache' = poly_mulcache_compute(b_cache, b)
  /\ pc' = "rm_cached"
  /\ UNCHANGED <<r, p, ntt_of_p, a, b, bytes, build_vars>>

(* poly_basemul_montgomery_cached(&r, &a, &b, &b_cache) *)
Do_ring_poly_basemul_montgomery_cached ==
  /\ pc = "rm_cached"
  /\ r' = poly_basemul_montgomery_cached(r, a, b, b_cache)
  /\ pc' = "rm_basemul"
  /\ UNCHANGED <<p, ntt_of_p, a, b, b_cache, bytes, build_vars>>

(* The four layer functions of poly_invntt_tomont(&r) *)
Do_ring_invntt_layer7_invert ==
  /\ pc = "rm_basemul"
  /\ r' = invntt_layer7_invert(r)
  /\ pc' = "rm_invntt_layer7"
  /\ UNCHANGED <<p, ntt_of_p, a, b, b_cache, bytes, build_vars>>

Do_ring_invntt_layer6 ==
  /\ pc = "rm_invntt_layer7"
  /\ r' = invntt_layer6(r)
  /\ pc' = "rm_invntt_layer6"
  /\ UNCHANGED <<p, ntt_of_p, a, b, b_cache, bytes, build_vars>>

Do_ring_invntt_layer54 ==
  /\ pc = "rm_invntt_layer6"
  /\ r' = invntt_layer54(r)
  /\ pc' = "rm_invntt_layer54"
  /\ UNCHANGED <<p, ntt_of_p, a, b, b_cache, bytes, build_vars>>

Do_ring_invntt_layer321 ==
  /\ pc = "rm_invntt_layer54"
  /\ r' = invntt_layer321(r)
  /\ pc' = "rm_done"
  /\ UNCHANGED <<p, ntt_of_p, a, b, b_cache, bytes, build_vars>>

NextRing ==
  \/ Do_ring_ntt_layer123
  \/ Do_ring_ntt_layer45
  \/ Do_ring_ntt_layer6
  \/ Do_ring_ntt_layer7
  \/ Do_ring_poly_reduce
  \/ Do_ring_poly_mulcache_compute
  \/ Do_ring_poly_basemul_montgomery_cached
  \/ Do_ring_invntt_layer7_invert
  \/ Do_ring_invntt_layer6
  \/ Do_ring_invntt_layer54
  \/ Do_ring_invntt_layer321

SpecRing == InitRing /\ [][NextRing]_vars

(* Coefficient k, mod q, of the product of x and y in Z_q[X]/(X^256 + 1):  *)
(* the sum over i in lo .. hi - 1 of x[i] y[k - i], and of -x[i] y[256 + k *)
(* - i] where i > k                                                        *)
RECURSIVE NegacyclicSum(_, _, _, _, _)
NegacyclicSum(x, y, k, lo, hi) ==
  IF hi - lo = 1
    THEN IF lo <= k
           THEN ((x[lo] % MLKEM_Q) * (y[k - lo] % MLKEM_Q)) % MLKEM_Q
           ELSE (-((x[lo] % MLKEM_Q) * (y[MLKEM_N + k - lo] % MLKEM_Q)))
                  % MLKEM_Q
    ELSE LET mid == (lo + hi) \div 2
         IN  (NegacyclicSum(x, y, k, lo, mid)
                + NegacyclicSum(x, y, k, mid, hi)) % MLKEM_Q

(* C27: end-to-end ring multiplication: for a, b with all |coefficient| <  *)
(* q, with A = poly_reduce(poly_ntt(a)), B = poly_ntt(b), C =              *)
(* poly_mulcache_compute(B) and R = poly_basemul_montgomery_cached(A, B,   *)
(* C), poly_invntt_tomont(R) is congruent mod q, coefficient by            *)
(* coefficient, to the negacyclic product a b in Z_q[X]/(X^256 + 1); and   *)
(* the precondition of every step holds when the step is reached: inputs   *)
(* of poly_ntt below q in magnitude, first operand of the base             *)
(* multiplication in [0, q), mulcache entries below q in magnitude.        *)
C27_RingMultiplication ==
  /\ pc = "rm_start" => array_abs_bound(a, MLKEM_Q - 1)
  /\ pc = "rm_a_reduced" =>
       /\ array_bound(a, 0, MLKEM_Q - 1)
       /\ array_abs_bound(b, MLKEM_Q - 1)
  /\ pc = "rm_cached" =>
       /\ array_abs_bound(a, UINT12_MAX)
       /\ array_abs_bound(b, NTT_BOUND8)
       /\ array_abs_bound(b_cache, MLKEM_Q - 1)
  /\ pc = "rm_done" =>
       \A k \in Coeffs :
         Congruent(r[k], NegacyclicSum(p, noise[1], k, 0, MLKEM_N))

(* The product of two polynomials with no zero coefficient has been        *)
(* computed and is not zero                                                *)
C27_Witness ==
  /\ pc = "rm_done"
  /\ \A i \in Coeffs : p[i] # 0 /\ noise[1][i] # 0
  /\ \E i, j \in Coeffs : p[i] # p[j]
  /\ \E i \in Coeffs : r[i] % MLKEM_Q # 0

=============================================================================
